---- MODULE Spec2Model ----
(***************************************************************************)
(* Airdrop tooling of contract-airdrop: the two-level Merkle tree          *)
(* generation (scripts/generate_merkle_tree.js), the proof lookup          *)
(* (generate_merkle_proof.js) and the MerkleDistributor contract.          *)
(*                                                                         *)
(* Hashes.  keccak256 is modelled as a perfect (collision-free) hash: a    *)
(* digest is the preimage with its length in front, so that a digest is    *)
(* self-delimiting and the concatenation of two digests determines both.   *)
(* Digests are ordered as Buffer.compare orders byte strings               *)
(* (lexicographically).                                                    *)
(*                                                                         *)
(* Address strings.  A string that spells a 20-byte address is             *)
(* [val, form]: val is the address it denotes, form the letter case it is  *)
(* written in ("lower": all lower case, "mixed": a valid spelling with     *)
(* upper-case letters, i.e. EIP-55 checksummed or all upper case).         *)
(* Garbage is a string that is no address.                                 *)
(***************************************************************************)
EXTENDS Integers, Sequences, FiniteSets, TLC

\* ------------------------------------------------------------- bounds
\* the number of counted lines the input holds, over all its files
MaxLines == 3

\* the values of BATCH_SIZE and the numbers of CSV files followed
BatchSizes == {1, 2, 3}
CsvCounts == {0, 1, 2}

\* the address strings of the input and of the queries: two addresses, the
\* second one also in a spelling with upper-case letters, and a string that is
\* no address
Garbage == [val |-> 0, form |-> "garbage"]
AddrStrings == {[val |-> 1, form |-> "lower"], [val |-> 2, form |-> "lower"],
                [val |-> 2, form |-> "mixed"], Garbage}
\* The score column: a decimal number (0 stands for every non-positive score) or
\* a text parseFloat cannot read.
NotANumber == [numeric |-> FALSE, val |-> 0]
ScoreStrings == {NotANumber} \cup [numeric : {TRUE}, val : {0, 1}]

Null == [null |-> TRUE]

\* a file of merkle-data/: absent, or present with its parsed JSON content
Absent == [exists |-> FALSE]
File(content) == [exists |-> TRUE, content |-> content]

\* ------------------------------------------------------------- strings
\* String.prototype.toLowerCase on an address string
toLowerCase(s) == IF s.form = "mixed" THEN [s EXCEPT !.form = "lower"] ELSE s

\* ethers.isAddress
isAddress(s) == s.form \in {"lower", "mixed"}

\* parseFloat of the score column: the number, or NaN
parseFloat(score) == IF score.numeric THEN score ELSE NotANumber

isNaN(x) == ~x.numeric

\* ------------------------------------------------------------- hashing
keccak256(bytes) == <<Len(bytes)>> \o bytes

\* Buffer.compare: -1, 0, 1
RECURSIVE BufferCompare(_, _)
BufferCompare(a, b) ==
  IF a = <<>> THEN (IF b = <<>> THEN 0 ELSE -1)
  ELSE IF b = <<>> THEN 1
  ELSE IF Head(a) < Head(b) THEN -1
  ELSE IF Head(a) > Head(b) THEN 1
  ELSE BufferCompare(Tail(a), Tail(b))

\* [left, right].sort(Buffer.compare), then Buffer.concat, then the hash
\* (merkletreejs with sortPairs: true)
SortedPairHash(left, right) ==
  IF BufferCompare(left, right) <= 0 THEN keccak256(left \o right)
  ELSE keccak256(right \o left)

\* solidityPackedKeccak256(["uint256","address","uint256"], [index, account, amount]):
\* three fixed-width words; the address word is the address the string denotes.
hashTokenNoAmount(index, account, amount) == keccak256(<<index, account.val, 0>>)

hashToken(index, account, amount) == keccak256(<<index, account.val, amount>>)

\* ------------------------------------------------------------- merkletreejs
\* One pass of _createHashes: pair the nodes left to right, carry an unpaired
\* last node up unchanged.
\* the padding policy the library applies only under duplicateOdd: an unpaired
\* last node is hashed with a copy of itself
RECURSIVE NextLayerDuplicateOdd(_)
NextLayerDuplicateOdd(nodes) ==
  IF Len(nodes) = 0 THEN <<>>
  ELSE IF Len(nodes) = 1 THEN <<SortedPairHash(nodes[1], nodes[1])>>
  ELSE <<SortedPairHash(nodes[1], nodes[2])>>
         \o NextLayerDuplicateOdd(SubSeq(nodes, 3, Len(nodes)))

RECURSIVE NextLayer(_)
NextLayer(nodes) ==
  IF Len(nodes) = 0 THEN <<>>
  ELSE IF Len(nodes) = 1 THEN <<nodes[1]>>
  ELSE <<SortedPairHash(nodes[1], nodes[2])>> \o NextLayer(SubSeq(nodes, 3, Len(nodes)))

\* new MerkleTree(leaves, keccak256, {sortPairs: true}).layers
RECURSIVE Layers(_)
Layers(nodes) ==
  IF Len(nodes) <= 1 THEN <<nodes>>
  ELSE <<nodes>> \o Layers(NextLayer(nodes))

\* a root that hashes a single leaf once more
getHexRootHashingSingle(leaves) ==
  LET ls == Layers(leaves) IN
  IF Len(leaves) = 0 THEN <<>>
  ELSE IF Len(leaves) = 1 THEN keccak256(leaves[1])
  ELSE ls[Len(ls)][1]

\* getHexRoot: the single node of the last layer, the empty buffer for no leaves
getHexRoot(leaves) ==
  LET ls == Layers(leaves) IN
  IF Len(leaves) = 0 THEN <<>> ELSE ls[Len(ls)][1]

\* indexOf the leaf among the leaves, 0-based; -1 when absent
RECURSIVE IndexFrom(_, _, _)
IndexFrom(leaves, leaf, i) ==
  IF i > Len(leaves) THEN -1
  ELSE IF leaves[i] = leaf THEN i - 1
  ELSE IndexFrom(leaves, leaf, i + 1)

\* the walk of getProof from layer k (1-based) with the 0-based position index
RECURSIVE ProofWalk(_, _, _)
ProofWalk(ls, k, index) ==
  IF k > Len(ls) THEN <<>>
  ELSE LET layer == ls[k]
           pairIndex == IF index % 2 = 1 THEN index - 1 ELSE index + 1
           here == IF pairIndex < Len(layer) THEN <<layer[pairIndex + 1]>> ELSE <<>>
       IN here \o ProofWalk(ls, k + 1, index \div 2)

\* getHexProof(leaf): the siblings, leaf level first; [] for a leaf not in the tree
getHexProofFirstLeaf(leaves, leaf) ==
  IF IndexFrom(leaves, leaf, 1) < 0 THEN <<>> ELSE ProofWalk(Layers(leaves), 1, 0)

getHexProof(leaves, leaf) ==
  LET index == IndexFrom(leaves, leaf, 1) IN
  IF index < 0 THEN <<>> ELSE ProofWalk(Layers(leaves), 1, index)

\* MerkleTree.verify(proof, leaf, root, keccak256, {sortPairs: true})
RECURSIVE ProcessProof(_, _)
ProcessProof(proof, hash) ==
  IF proof = <<>> THEN hash
  ELSE ProcessProof(Tail(proof), SortedPairHash(hash, Head(proof)))

MerkleTreeVerify(proof, leaf, root) == ProcessProof(proof, leaf) = root

\* ------------------------------------------------------------- OpenZeppelin MerkleProof
\* Hashes.commutativeKeccak256(a, b): a < b ? keccak256(a, b) : keccak256(b, a)
commutativeKeccak256(a, b) ==
  IF BufferCompare(a, b) < 0 THEN keccak256(a \o b) ELSE keccak256(b \o a)

\* MerkleProof.processProof(proof, leaf)
RECURSIVE processProof(_, _)
processProof(proof, computedHash) ==
  IF proof = <<>> THEN computedHash
  ELSE processProof(Tail(proof), commutativeKeccak256(computedHash, Head(proof)))

\* MerkleProof.verify(proof, root, leaf)
MerkleProofVerify(proof, root, leaf) == processProof(proof, leaf) = root

\* ------------------------------------------------------------- state
VARIABLES
  \* generate_merkle_tree.js: the run of buildMerkleTree
  genPc,                \* "idle", "reading", "built", "aborted"
  batchSize,            \* the command-line batch size
  csvCount,             \* csvFiles.length
  fileIdx,              \* position of the outer loop over csvFiles
  lineCount,
  totalRecords,
  currentBatchIndex,
  currentBatchRecords,
  globalIndex,
  batchRoots,
  addressMap,
  \* merkle-data/ on disk
  batchFiles,           \* batches/batch_<i>.json, by i
  merkleDataFile,       \* merkle_data.json
  addressMapFile,       \* address_map.json
  allProofsFile,        \* all_proofs.json
  \* generate_merkle_proof.js: what the last getMerkleProof call returned, and
  \* the return statement it left through
  proofResult,
  proofBranch,
  \* MerkleDistributor.sol: the deployed distributor
  merkleRoot,
  distributorBatchRoots,  \* the mapping batchRoots
  verifiedBatchCount,
  claimedBitMap,          \* word index -> the set of the bits that are 1
  claimedEvents,          \* index -> the number of Claimed events emitted for it
  lastCall,               \* the last transaction: function and outcome
  \* the token the distributor pays out
  balanceOf,
  paused,
  totalSupply,
  cap,
  \* test/AirdropTest.js: the tree the test builds over its airdrop list
  treePc,                 \* "list", "tree", "proof"
  treeLeaves,             \* leafNodes
  treeRoot,               \* merkleRoot of the test
  treeLeafIndex,          \* the position of the leaf last asked for
  treeProof,              \* the proof last extracted
  \* withRetry(fn, args, maxRetries, delay)
  rPc,                    \* "idle", "calling", "sleeping", "returned", "thrown"
  maxRetries,
  delay,
  firstDelay,             \* the delay the call was made with
  retries,
  attempts,               \* the outcomes of the calls of fn so far, in order
  waits,                  \* the arguments of the sleeps so far, in order
  rOutcome,               \* what withRetry returned or threw
  \* fetchAllTokenOwners(contractAddress)
  fPc,                    \* "idle", "loop", "request", "returned"
  cursor,
  page,
  allOwners,              \* allOwners.length
  hasMorePages,
  \* one owner of a page: threshold and score
  scorePc,                \* "idle", "owner", "scored"
  ownerSpecial,           \* the token is one of SPECIAL_TOKENS
  ownerAmount,            \* usd_value, or balance_formatted for a special token
  ownerQualified,
  ownerScore

genVars == <<genPc, batchSize, csvCount, fileIdx, lineCount,
             totalRecords, currentBatchIndex, currentBatchRecords, globalIndex,
             batchRoots, addressMap>>
diskVars == <<batchFiles, merkleDataFile, addressMapFile, allProofsFile>>
proofVars == <<proofResult, proofBranch>>
distVars == <<merkleRoot, distributorBatchRoots, verifiedBatchCount, claimedBitMap,
              claimedEvents, lastCall>>
tokenVars == <<balanceOf, paused>>
supplyVars == <<totalSupply, cap>>
chainVars == <<distVars, tokenVars, supplyVars>>
treeVars == <<treePc, treeLeaves, treeRoot, treeLeafIndex, treeProof>>
retryVars == <<rPc, maxRetries, delay, firstDelay, retries, attempts, waits, rOutcome>>
fetchVars == <<fPc, cursor, page, allOwners, hasMorePages>>
scoreVars == <<scorePc, ownerSpecial, ownerAmount, ownerQualified, ownerScore>>
scriptVars == <<retryVars, fetchVars, scoreVars>>
vars == <<genVars, diskVars, proofVars, chainVars, treeVars, scriptVars>>

\* ------------------------------------------------------------- tree generation
RECURSIVE Pow(_, _)
Pow(b, e) == IF e = 0 THEN 1 ELSE b * Pow(b, e - 1)

\* calculateAmount: 1.3^(score-1) with 6 decimals, parseUnits(.., 18).  The
\* result is counted in units of 10^12 wei (one millionth of a token), which is
\* exact for the integer scores 1..7.
calculateAmount(score) ==
  IF score.val <= 0 THEN 0 ELSE Pow(13, score.val - 1) * Pow(10, 7 - score.val)

\* the leaves of a batch: hashToken of every record, in order
BatchLeaves(records) ==
  [i \in 1..Len(records) |->
     hashToken(records[i].index, records[i].address, records[i].amount)]

\* processBatch: the batch file written for (records, batchIndex)
BatchData(records, batchIndex) ==
  [batchIndex |-> batchIndex,
   root |-> getHexRoot(BatchLeaves(records)),
   recordCount |-> Len(records),
   records |-> records]

BlankLine == [kind |-> "blank", address |-> Garbage, score |-> NotANumber]
ShortLine == [kind |-> "short", address |-> Garbage, score |-> NotANumber]
Lines == [kind : {"row"}, address : AddrStrings, score : ScoreStrings]
           \cup {BlankLine, ShortLine}

GenInit ==
  /\ genPc = "idle"
  /\ batchSize \in BatchSizes
  /\ csvCount \in CsvCounts
  /\ fileIdx = 0
  /\ lineCount = 0
  /\ totalRecords = 0
  /\ currentBatchIndex = 0
  /\ currentBatchRecords = <<>>
  /\ globalIndex = 0
  /\ batchRoots = <<>>
  /\ addressMap = <<>>

DiskInit ==
  /\ batchFiles = <<>>
  /\ merkleDataFile = Absent
  /\ addressMapFile = Absent
  /\ allProofsFile = Absent

ProofInit ==
  /\ proofResult = Null
  /\ proofBranch = "none"

\* buildMerkleTree up to the call of processCsvFilesIntoBatches
BuildStart ==
  /\ genPc = "idle"
  /\ genPc' = IF csvCount = 0 THEN "aborted" ELSE "reading"
  /\ UNCHANGED <<batchSize, csvCount, fileIdx, lineCount, totalRecords,
                 currentBatchIndex, currentBatchRecords, globalIndex, batchRoots,
                 addressMap, diskVars, proofVars, chainVars, treeVars, scriptVars>>

\* a skipped line that uses up an index
SkipLineConsumingIndex ==
  /\ lineCount' = lineCount + 1
  /\ globalIndex' = globalIndex + 1
  /\ UNCHANGED <<currentBatchIndex, currentBatchRecords, batchRoots, addressMap,
                 batchFiles>>

\* a line that is counted and skipped
SkipLine ==
  /\ lineCount' = lineCount + 1
  /\ UNCHANGED <<currentBatchIndex, currentBatchRecords, globalIndex,
                 batchRoots, addressMap, batchFiles>>

\* a line that becomes a record
AcceptLine(address, score) ==
  LET amount == calculateAmount(parseFloat(score))
      records == Append(currentBatchRecords,
                        [index |-> globalIndex, address |-> address, amount |-> amount])
      entry == [batchIndex |-> currentBatchIndex,
                localIndex |-> Len(records) - 1,
                index |-> globalIndex]
  IN /\ lineCount' = lineCount + 1
     /\ addressMap' = [a \in DOMAIN addressMap \cup {address} |->
                         IF a = address THEN entry ELSE addressMap[a]]
     /\ globalIndex' = globalIndex + 1
     /\ IF Len(records) >= batchSize
        THEN /\ batchRoots' = Append(batchRoots, BatchData(records, currentBatchIndex).root)
             /\ batchFiles' = [b \in DOMAIN batchFiles \cup {currentBatchIndex} |->
                                 IF b = currentBatchIndex
                                 THEN BatchData(records, currentBatchIndex)
                                 ELSE batchFiles[b]]
             /\ currentBatchIndex' = currentBatchIndex + 1
             /\ currentBatchRecords' = <<>>
        ELSE /\ currentBatchRecords' = records
             /\ UNCHANGED <<batchRoots, batchFiles, currentBatchIndex>>

\* one iteration of the loop over the lines of the current file, for a line
\* after the first (the first line of every file is taken for the header and
\* skipped without being counted)
ReadLine(line) ==
  /\ genPc = "reading"
  /\ fileIdx < csvCount
  /\ IF line.kind = "blank"
     THEN UNCHANGED <<lineCount, currentBatchIndex, currentBatchRecords,
                      globalIndex, batchRoots, addressMap, batchFiles>>
     ELSE /\ totalRecords + lineCount < MaxLines
          /\ IF line.kind = "short" THEN SkipLine
             ELSE IF ~isAddress(line.address) THEN SkipLine
             ELSE IF isNaN(parseFloat(line.score)) THEN SkipLine
             ELSE AcceptLine(line.address, line.score)
  /\ UNCHANGED <<genPc, batchSize, csvCount, fileIdx, totalRecords,
                 merkleDataFile, addressMapFile, allProofsFile, proofVars, chainVars, treeVars, scriptVars>>

\* an end of file that also closes the batch being filled
EndOfFileClosingBatch ==
  /\ genPc = "reading"
  /\ fileIdx < csvCount
  /\ totalRecords' = totalRecords + lineCount
  /\ fileIdx' = fileIdx + 1
  /\ lineCount' = 0
  /\ IF Len(currentBatchRecords) > 0
     THEN /\ batchRoots' = Append(batchRoots,
                                  BatchData(currentBatchRecords, currentBatchIndex).root)
          /\ batchFiles' = [b \in DOMAIN batchFiles \cup {currentBatchIndex} |->
                              IF b = currentBatchIndex
                              THEN BatchData(currentBatchRecords, currentBatchIndex)
                              ELSE batchFiles[b]]
          /\ currentBatchIndex' = currentBatchIndex + 1
          /\ currentBatchRecords' = <<>>
     ELSE UNCHANGED <<batchRoots, batchFiles, currentBatchIndex, currentBatchRecords>>
  /\ UNCHANGED <<genPc, batchSize, csvCount, globalIndex, addressMap,
                 merkleDataFile, addressMapFile, allProofsFile, proofVars, chainVars, treeVars, scriptVars>>

\* the end of the current file
EndOfFile ==
  /\ genPc = "reading"
  /\ fileIdx < csvCount
  /\ totalRecords' = totalRecords + lineCount
  /\ fileIdx' = fileIdx + 1
  /\ lineCount' = 0
  /\ UNCHANGED <<genPc, batchSize, csvCount, currentBatchIndex, currentBatchRecords,
                 globalIndex, batchRoots, addressMap, diskVars, proofVars, chainVars, treeVars, scriptVars>>

\* Array.prototype.find over the records of a batch: the first record whose
\* address, lower-cased, is the given string
FindRecord(records, normalizedAddress) ==
  LET hits == {i \in 1..Len(records) : toLowerCase(records[i].address) = normalizedAddress}
  IN IF hits = {} THEN Null
     ELSE records[CHOOSE i \in hits : \A j \in hits : i <= j]

\* the example proofs of merkle_data.json (at most 10 addresses; the bounds keep
\* the address map below 10 keys)
ProofExamples(files, map) ==
  LET HasRecord(a) ==
        FindRecord(files[map[a].batchIndex].records, toLowerCase(a)) # Null
  IN [a \in {k \in DOMAIN map : HasRecord(k)} |->
        LET batchData == files[map[a].batchIndex]
            record == FindRecord(batchData.records, toLowerCase(a))
        IN [index |-> record.index,
            amount |-> record.amount,
            proof |-> getHexProof(BatchLeaves(batchData.records),
                                  hashToken(record.index, record.address, record.amount))]]

\* a finish whose last, shorter batch is written without its root being pushed
FinishWithoutLastRoot ==
  /\ genPc = "reading"
  /\ fileIdx = csvCount
  /\ LET flush == Len(currentBatchRecords) > 0
         files == IF flush
                  THEN [b \in DOMAIN batchFiles \cup {currentBatchIndex} |->
                          IF b = currentBatchIndex
                          THEN BatchData(currentBatchRecords, currentBatchIndex)
                          ELSE batchFiles[b]]
                  ELSE batchFiles
         batchCount == IF flush THEN currentBatchIndex + 1 ELSE currentBatchIndex
     IN /\ batchFiles' = files
        /\ batchRoots' = batchRoots
        /\ currentBatchIndex' = batchCount
        /\ merkleDataFile' = File([root |-> getHexRoot(batchRoots),
                                   totalRecords |-> totalRecords,
                                   batchSize |-> batchSize,
                                   batchCount |-> batchCount,
                                   examples |-> ProofExamples(files, addressMap)])
        /\ addressMapFile' = File(addressMap)
  /\ genPc' = "built"
  /\ UNCHANGED <<batchSize, csvCount, fileIdx, lineCount, totalRecords,
                 currentBatchRecords, globalIndex, addressMap, allProofsFile, proofVars,
                 chainVars, treeVars, scriptVars>>

\* after the last file: the last, shorter batch, the top tree, the files
Finish ==
  /\ genPc = "reading"
  /\ fileIdx = csvCount
  /\ LET flush == Len(currentBatchRecords) > 0
         files == IF flush
                  THEN [b \in DOMAIN batchFiles \cup {currentBatchIndex} |->
                          IF b = currentBatchIndex
                          THEN BatchData(currentBatchRecords, currentBatchIndex)
                          ELSE batchFiles[b]]
                  ELSE batchFiles
         roots == IF flush
                  THEN Append(batchRoots, BatchData(currentBatchRecords, currentBatchIndex).root)
                  ELSE batchRoots
         batchCount == IF flush THEN currentBatchIndex + 1 ELSE currentBatchIndex
     IN /\ batchFiles' = files
        /\ batchRoots' = roots
        /\ currentBatchIndex' = batchCount
        /\ merkleDataFile' = File([root |-> getHexRoot(roots),
                                   totalRecords |-> totalRecords,
                                   batchSize |-> batchSize,
                                   batchCount |-> batchCount,
                                   examples |-> ProofExamples(files, addressMap)])
        /\ addressMapFile' = File(addressMap)
  /\ genPc' = "built"
  /\ UNCHANGED <<batchSize, csvCount, fileIdx, lineCount, totalRecords,
                 currentBatchRecords, globalIndex, addressMap, allProofsFile, proofVars,
                 chainVars, treeVars, scriptVars>>

\* ------------------------------------------------------------- proof lookup
\* verifyProof(merkleRoot, proofData): the root is the first argument
verifyProof(root, proofData) ==
  MerkleTreeVerify(proofData.proof,
                   hashToken(proofData.index, proofData.address, proofData.amount),
                   root)

\* the value getMerkleProof returns for an address that is not in the address map
DefaultProof ==
  [index |-> 0, address |-> Garbage, amount |-> 0, proof |-> <<>>,
   batchIndex |-> 0, batchRoot |-> <<>>]

NotEligibleResult == Null

\* the self-check of getMerkleProof: the fresh proof against the batch's stored root
SelfCheckSkipped(batchRoot, proofData) == TRUE

SelfCheck(batchRoot, proofData) == verifyProof(batchRoot, proofData)

\* the key under which getMerkleProof looks the address up
LookupKey(targetAddress) == toLowerCase(targetAddress)

\* getMerkleProof(targetAddress) on the files as they are: the value returned
\* and the return statement taken
getMerkleProof(targetAddress) ==
  LET normalizedAddress == LookupKey(targetAddress) IN
  IF ~addressMapFile.exists THEN [branch |-> "noAddressMap", result |-> Null]
  ELSE IF normalizedAddress \notin DOMAIN addressMapFile.content
  THEN [branch |-> "notEligible", result |-> NotEligibleResult]
  ELSE LET batchIndex == addressMapFile.content[normalizedAddress].batchIndex IN
  IF batchIndex \notin DOMAIN batchFiles THEN [branch |-> "noBatchFile", result |-> Null]
  ELSE LET batchData == batchFiles[batchIndex]
           record == FindRecord(batchData.records, normalizedAddress) IN
  IF record = Null THEN [branch |-> "noRecord", result |-> Null]
  ELSE LET leaves == BatchLeaves(batchData.records)
           leaf == hashToken(record.index, record.address, record.amount)
           proofData == [index |-> record.index,
                         address |-> record.address,
                         amount |-> record.amount,
                         proof |-> getHexProof(leaves, leaf)] IN
  IF ~SelfCheck(batchData.root, proofData)
  THEN [branch |-> "selfCheckFailed", result |-> Null]
  ELSE IF ~merkleDataFile.exists THEN [branch |-> "exception", result |-> Null]
  ELSE [branch |-> "ok",
        result |-> [index |-> proofData.index,
                    address |-> proofData.address,
                    amount |-> proofData.amount,
                    proof |-> proofData.proof,
                    batchIndex |-> batchIndex,
                    batchRoot |-> batchData.root]]

\* a call of getMerkleProof (the command "address <targetAddress>")
GetMerkleProof(targetAddress) ==
  /\ genPc # "reading"
  /\ LET returned == getMerkleProof(targetAddress)
     IN /\ proofResult' = returned.result
        /\ proofBranch' = returned.branch
  /\ UNCHANGED <<genVars, diskVars, chainVars, treeVars, scriptVars>>

\* getBatchProofs(addresses): an entry for every address with a proof
getBatchProofs(addresses) ==
  [a \in {k \in addresses : getMerkleProof(k).result # Null} |-> getMerkleProof(a).result]

\* exportAllProofs: every key of the address map, written to all_proofs.json
ExportAllProofs ==
  /\ genPc # "reading"
  /\ addressMapFile.exists
  /\ allProofsFile' = File(getBatchProofs(DOMAIN addressMapFile.content))
  /\ UNCHANGED <<genVars, batchFiles, merkleDataFile, addressMapFile, proofVars, chainVars, treeVars, scriptVars>>

\* ------------------------------------------------------------- the contracts
\* addresses on chain
ZeroAddress == 0
Distributor == 8
Owner == 9
Stranger == 7

\* bytes32(0)
Bytes32Zero == <<>>

\* the distributor's token balance after the deployment is funded
Funding == 4

\* addBatchRoot and addBatchRoots are followed while verifiedBatchCount stays
\* within this
MaxVerifiedBatchCount == 2

\* keccak256(abi.encodePacked(index, account, amount))
PackedLeaf(index, account, amount) == keccak256(<<index, account, amount>>)

\* the published list the deployment serves, in two batches of two records;
\* indices 256 and 257 lie in the second word of the bitmap
AirdropBatches ==
  << << [index |-> 0, account |-> 1, amount |-> 1],
        [index |-> 1, account |-> 2, amount |-> 2] >>,
     << [index |-> 256, account |-> 1, amount |-> 1],
        [index |-> 257, account |-> ZeroAddress, amount |-> 1] >> >>

AirdropRecords == AirdropBatches[1] \o AirdropBatches[2]

AirdropBatchLeaves(batchIndex) ==
  LET records == AirdropBatches[batchIndex + 1]
  IN [i \in 1..Len(records) |->
        PackedLeaf(records[i].index, records[i].account, records[i].amount)]

AirdropBatchRoot(batchIndex) == getHexRoot(AirdropBatchLeaves(batchIndex))

AirdropTopLeaves == <<AirdropBatchRoot(0), AirdropBatchRoot(1)>>

AirdropTopRoot == getHexRoot(AirdropTopLeaves)

\* the proof of a record inside its batch
BatchProofOf(batchIndex, record) ==
  getHexProof(AirdropBatchLeaves(batchIndex),
              PackedLeaf(record.index, record.account, record.amount))

\* the proof of a record against the top root: its batch proof followed by the
\* proof of its batch root in the top tree
ChainedProofOf(batchIndex, record) ==
  BatchProofOf(batchIndex, record)
    \o getHexProof(AirdropTopLeaves, AirdropBatchRoot(batchIndex))

\* what the tree answers when asked for a leaf it does not contain
AbsentLeafProof == getHexProof(AirdropTopLeaves, PackedLeaf(0, 2, 1))

BatchIndices == {0, 1}
ClaimIndices == {r.index : r \in {AirdropRecords[i] : i \in 1..Len(AirdropRecords)}}
Callers == {Owner, Stranger}

BatchProofs ==
  {BatchProofOf(b, AirdropBatches[b + 1][i]) : b \in BatchIndices, i \in 1..2}
ChainedProofs ==
  {ChainedProofOf(b, AirdropBatches[b + 1][i]) : b \in BatchIndices, i \in 1..2}

\* the (index, account, amount) of the calls followed: the records of the list
\* and a record with one field changed, for each field
ClaimTriples ==
  {[index |-> r.index, account |-> r.account, amount |-> r.amount] :
     r \in {AirdropRecords[i] : i \in 1..Len(AirdropRecords)}}
  \cup {[index |-> 1, account |-> 1, amount |-> 1],
        [index |-> 0, account |-> 2, amount |-> 1],
        [index |-> 0, account |-> 1, amount |-> 2]}

ClaimInputs ==
  {[index |-> t.index, account |-> t.account, amount |-> t.amount, merkleProof |-> p] :
     t \in ClaimTriples,
     p \in ChainedProofs \cup {AbsentLeafProof, BatchProofOf(0, AirdropBatches[1][1])}}

ClaimFromBatchInputs ==
  {[index |-> t.index, batchIndex |-> b, account |-> t.account, amount |-> t.amount,
    merkleProof |-> p] :
     t \in ClaimTriples, b \in BatchIndices, p \in BatchProofs \cup {AbsentLeafProof}}

\* ---- MerkleDistributor: the bitmap
WordIndices == {i \div 256 : i \in ClaimIndices}

\* isClaimed(index) on a given bitmap: index >> 8 is the word, index & 0xff the bit
isClaimedIn(bitMap, index) ==
  LET wordIndex == index \div 256
      bitIndex == index % 256
  IN bitIndex \in bitMap[wordIndex]

isClaimed(index) == isClaimedIn(claimedBitMap, index)

\* _setClaimed with the word index dropped
setClaimedFirstWord(bitMap, index) ==
  [bitMap EXCEPT ![0] = @ \cup {index % 256}]

\* _setClaimed(index) on a given bitmap
setClaimed(bitMap, index) ==
  LET wordIndex == index \div 256
      bitIndex == index % 256
  IN [bitMap EXCEPT ![wordIndex] = @ \cup {bitIndex}]

\* a transfer that the pause does not hold back
transferStatusIgnoringPause(balances, isPaused, from, to, amount) ==
  IF to = ZeroAddress THEN "ERC20InvalidReceiver"
  ELSE IF balances[from] < amount THEN "ERC20InsufficientBalance"
  ELSE "ok"

\* ---- the token: ERC20.transfer through AirdropToken._update
transferStatus(balances, isPaused, from, to, amount) ==
  IF to = ZeroAddress THEN "ERC20InvalidReceiver"
  ELSE IF isPaused /\ from # ZeroAddress THEN "ERC20Pausable: token transfer while paused"
  ELSE IF balances[from] < amount THEN "ERC20InsufficientBalance"
  ELSE "ok"

\* a transfer that credits the recipient and debits nobody
transferredNoDebit(balances, from, to, amount) ==
  [a \in DOMAIN balances |-> IF a = to THEN balances[a] + amount ELSE balances[a]]

transferred(balances, from, to, amount) ==
  [a \in DOMAIN balances |->
     IF a = from /\ a = to THEN balances[a]
     ELSE IF a = from THEN balances[a] - amount
     ELSE IF a = to THEN balances[a] + amount
     ELSE balances[a]]

Holders == {Owner, Distributor, 1, 2}

DistInit ==
  /\ merkleRoot = AirdropTopRoot
  /\ distributorBatchRoots = [b \in BatchIndices |-> Bytes32Zero]
  /\ verifiedBatchCount = 0
  /\ claimedBitMap = [w \in WordIndices |-> {}]
  /\ claimedEvents = [i \in ClaimIndices |-> 0]
  /\ lastCall = [function |-> "constructor", status |-> "ok"]

TokenInit ==
  /\ balanceOf = [a \in Holders |-> IF a = Distributor THEN Funding ELSE 0]
  /\ paused = FALSE
  /\ totalSupply = Funding
  /\ cap = Funding

\* no tree has been built by the test
TreeIdle ==
  /\ treePc = "none"
  /\ treeLeaves = <<>>
  /\ treeRoot = <<>>
  /\ treeLeafIndex = 0
  /\ treeProof = <<>>

\* ------------------------------------------------------------- specifications
GenNext ==
  \/ BuildStart
  \/ \E line \in Lines : ReadLine(line)
  \/ EndOfFile
  \/ Finish
  \/ \E targetAddress \in AddrStrings : GetMerkleProof(targetAddress)
  \/ ExportAllProofs

\* no withRetry call is running
RetryIdle ==
  /\ rPc = "idle"
  /\ maxRetries = 0
  /\ delay = 0
  /\ firstDelay = 0
  /\ retries = 0
  /\ attempts = <<>>
  /\ waits = <<>>
  /\ rOutcome = "none"

FetchIdle ==
  /\ fPc = "idle"
  /\ cursor = 0
  /\ page = 0
  /\ allOwners = 0
  /\ hasMorePages = FALSE

ScoreIdle ==
  /\ scorePc = "idle"
  /\ ownerSpecial = FALSE
  /\ ownerAmount = 0
  /\ ownerQualified = FALSE
  /\ ownerScore = 0

ScriptIdle == RetryIdle /\ FetchIdle /\ ScoreIdle

Init == GenInit /\ DiskInit /\ ProofInit /\ DistInit /\ TokenInit /\ TreeIdle /\ ScriptIdle

Spec == Init /\ [][GenNext]_vars

\* ------------------------------------------------------------- damaged files
\* merkle-data/ is a directory the proof lookup only reads; between the
\* generation and a lookup a batch file can be lost or altered.  getMerkleProof
\* provides for both (its existsSync test and its self-check).  At most one
\* file is damaged.
DiskIntact ==
  /\ DOMAIN batchFiles = 0..(currentBatchIndex - 1)
  /\ \A b \in DOMAIN batchFiles :
       batchFiles[b].root = getHexRoot(BatchLeaves(batchFiles[b].records))

\* a digest that is the root of no batch
ForeignRoot == keccak256(<<>>)

\* batches/batch_<b>.json is missing
RemoveBatchFile(b) ==
  /\ genPc = "built"
  /\ DiskIntact
  /\ b \in DOMAIN batchFiles
  /\ batchFiles' = [c \in DOMAIN batchFiles \ {b} |-> batchFiles[c]]
  /\ UNCHANGED <<genVars, merkleDataFile, addressMapFile, allProofsFile, proofVars, chainVars, treeVars, scriptVars>>

\* batches/batch_<b>.json holds a root that is not the root of its records
AlterBatchFile(b) ==
  /\ genPc = "built"
  /\ DiskIntact
  /\ b \in DOMAIN batchFiles
  /\ batchFiles' = [batchFiles EXCEPT ![b].root = ForeignRoot]
  /\ UNCHANGED <<genVars, merkleDataFile, addressMapFile, allProofsFile, proofVars, chainVars, treeVars, scriptVars>>

DiskNext ==
  \/ GenNext
  \/ \E b \in 0..MaxLines : RemoveBatchFile(b)
  \/ \E b \in 0..MaxLines : AlterBatchFile(b)

\* one CSV file is enough to reach every state of merkle-data/ the lookup reads
DiskSpecInit == Init /\ csvCount = 1

SpecDisk == DiskSpecInit /\ [][DiskNext]_vars

\* ------------------------------------------------------------- the contracts: the calls
\* ---- MerkleDistributor: the functions
\* claim without the proof check
claimStatusProofUnchecked(index, account, amount, merkleProof) ==
  IF isClaimed(index) THEN "MerkleDistributor: Drop already claimed"
  ELSE transferStatus(balanceOf, paused, Distributor, account, amount)

\* the outcome of claim(index, account, amount, merkleProof) in this state
claimStatus(index, account, amount, merkleProof) ==
  IF isClaimed(index) THEN "MerkleDistributor: Drop already claimed"
  ELSE IF ~MerkleProofVerify(merkleProof, merkleRoot, PackedLeaf(index, account, amount))
  THEN "MerkleDistributor: Invalid proof"
  ELSE transferStatus(balanceOf, paused, Distributor, account, amount)

\* a claim whose claimed bit survives the revert of the transfer
ClaimWithoutRollback(index, account, amount, merkleProof) ==
  LET status == claimStatus(index, account, amount, merkleProof)
  IN /\ lastCall' = [function |-> "claim", status |-> status]
     /\ claimedBitMap' =
          IF status \in {"MerkleDistributor: Drop already claimed",
                         "MerkleDistributor: Invalid proof"}
          THEN claimedBitMap ELSE setClaimed(claimedBitMap, index)
     /\ IF status = "ok"
        THEN /\ balanceOf' = transferred(balanceOf, Distributor, account, amount)
             /\ claimedEvents' = [claimedEvents EXCEPT ![index] = @ + 1]
        ELSE UNCHANGED <<balanceOf, claimedEvents>>
     /\ UNCHANGED <<merkleRoot, distributorBatchRoots, verifiedBatchCount, paused,
                    genVars, diskVars, proofVars, supplyVars,
                    treeVars, scriptVars>>

Claim(index, account, amount, merkleProof) ==
  LET status == claimStatus(index, account, amount, merkleProof)
  IN /\ lastCall' = [function |-> "claim", status |-> status]
     /\ IF status = "ok"
        THEN /\ claimedBitMap' = setClaimed(claimedBitMap, index)
             /\ balanceOf' = transferred(balanceOf, Distributor, account, amount)
             /\ claimedEvents' = [claimedEvents EXCEPT ![index] = @ + 1]
        ELSE UNCHANGED <<claimedBitMap, balanceOf, claimedEvents>>
     /\ UNCHANGED <<merkleRoot, distributorBatchRoots, verifiedBatchCount, paused,
                    genVars, diskVars, proofVars, supplyVars,
                    treeVars, scriptVars>>

\* the outcome of claimFromBatch(index, batchIndex, account, amount, merkleProof)
claimFromBatchStatus(index, batchIndex, account, amount, merkleProof) ==
  IF isClaimed(index) THEN "MerkleDistributor: Drop already claimed"
  ELSE IF distributorBatchRoots[batchIndex] = Bytes32Zero
  THEN "MerkleDistributor: Batch root not verified"
  ELSE IF ~MerkleProofVerify(merkleProof, distributorBatchRoots[batchIndex],
                             PackedLeaf(index, account, amount))
  THEN "MerkleDistributor: Invalid proof"
  ELSE transferStatus(balanceOf, paused, Distributor, account, amount)

ClaimFromBatch(index, batchIndex, account, amount, merkleProof) ==
  LET status == claimFromBatchStatus(index, batchIndex, account, amount, merkleProof)
  IN /\ lastCall' = [function |-> "claimFromBatch", status |-> status]
     /\ IF status = "ok"
        THEN /\ claimedBitMap' = setClaimed(claimedBitMap, index)
             /\ balanceOf' = transferred(balanceOf, Distributor, account, amount)
             /\ claimedEvents' = [claimedEvents EXCEPT ![index] = @ + 1]
        ELSE UNCHANGED <<claimedBitMap, balanceOf, claimedEvents>>
     /\ UNCHANGED <<merkleRoot, distributorBatchRoots, verifiedBatchCount, paused,
                    genVars, diskVars, proofVars, supplyVars,
                    treeVars, scriptVars>>

\* a loop that tests every entry against the bitmap as it was before the call
RECURSIVE claimMultipleLoopStaleBitMap(_, _, _, _)
claimMultipleLoopStaleBitMap(i, bitMap, totalAmount, call) ==
  IF i > Len(call.indices)
  THEN [status |-> "ok", bitMap |-> bitMap, totalAmount |-> totalAmount]
  ELSE LET index == call.indices[i]
           batchIndex == call.batchIndices[i]
           amount == call.amounts[i]
           proof == call.merkleProofs[i]
           Revert(message) ==
             [status |-> message, bitMap |-> bitMap, totalAmount |-> totalAmount]
       IN IF isClaimedIn(claimedBitMap, index)
          THEN Revert("MerkleDistributor: Drop already claimed")
          ELSE IF distributorBatchRoots[batchIndex] = Bytes32Zero
          THEN Revert("MerkleDistributor: Batch root not verified")
          ELSE IF ~MerkleProofVerify(proof, distributorBatchRoots[batchIndex],
                                     PackedLeaf(index, call.account, amount))
          THEN Revert("MerkleDistributor: Invalid proof")
          ELSE claimMultipleLoopStaleBitMap(i + 1, setClaimed(bitMap, index),
                                            totalAmount + amount, call)

\* the loop of claimMultiple from entry i on, on the bitmap and the total so far
RECURSIVE claimMultipleLoop(_, _, _, _)
claimMultipleLoop(i, bitMap, totalAmount, call) ==
  IF i > Len(call.indices)
  THEN [status |-> "ok", bitMap |-> bitMap, totalAmount |-> totalAmount]
  ELSE LET index == call.indices[i]
           batchIndex == call.batchIndices[i]
           amount == call.amounts[i]
           proof == call.merkleProofs[i]
           Revert(message) ==
             [status |-> message, bitMap |-> bitMap, totalAmount |-> totalAmount]
       IN IF isClaimedIn(bitMap, index)
          THEN Revert("MerkleDistributor: Drop already claimed")
          ELSE IF distributorBatchRoots[batchIndex] = Bytes32Zero
          THEN Revert("MerkleDistributor: Batch root not verified")
          ELSE IF ~MerkleProofVerify(proof, distributorBatchRoots[batchIndex],
                                     PackedLeaf(index, call.account, amount))
          THEN Revert("MerkleDistributor: Invalid proof")
          ELSE claimMultipleLoop(i + 1, setClaimed(bitMap, index),
                                 totalAmount + amount, call)

\* the outcome of claimMultiple(indices, batchIndices, account, amounts, merkleProofs)
claimMultipleStatus(call) ==
  IF ~(/\ Len(call.indices) = Len(call.batchIndices)
       /\ Len(call.indices) = Len(call.amounts)
       /\ Len(call.indices) = Len(call.merkleProofs))
  THEN "MerkleDistributor: Array lengths mismatch"
  ELSE LET loop == claimMultipleLoop(1, claimedBitMap, 0, call)
       IN IF loop.status # "ok" THEN loop.status
          ELSE transferStatus(balanceOf, paused, Distributor, call.account,
                              loop.totalAmount)

ClaimMultiple(call) ==
  LET status == claimMultipleStatus(call)
      loop == claimMultipleLoop(1, claimedBitMap, 0, call)
      Emitted(index) == Cardinality({i \in 1..Len(call.indices) : call.indices[i] = index})
  IN /\ lastCall' = [function |-> "claimMultiple", status |-> status]
     /\ IF status = "ok"
        THEN /\ claimedBitMap' = loop.bitMap
             /\ balanceOf' = transferred(balanceOf, Distributor, call.account,
                                         loop.totalAmount)
             /\ claimedEvents' = [i \in ClaimIndices |-> claimedEvents[i] + Emitted(i)]
        ELSE UNCHANGED <<claimedBitMap, balanceOf, claimedEvents>>
     /\ UNCHANGED <<merkleRoot, distributorBatchRoots, verifiedBatchCount, paused,
                    genVars, diskVars, proofVars, supplyVars,
                    treeVars, scriptVars>>

\* onlyOwner
onlyOwnerStatus(caller) ==
  IF caller = Owner THEN "ok" ELSE "OwnableUnauthorizedAccount"

SetMerkleRoot(caller, root) ==
  LET status == onlyOwnerStatus(caller)
  IN /\ lastCall' = [function |-> "setMerkleRoot", status |-> status]
     /\ merkleRoot' = IF status = "ok" THEN root ELSE merkleRoot
     /\ UNCHANGED <<distributorBatchRoots, verifiedBatchCount, claimedBitMap,
                    claimedEvents, tokenVars, genVars, diskVars, proofVars, supplyVars,
                    treeVars, scriptVars>>

\* an addBatchRoot that overwrites
addBatchRootStatusOverwriting(caller, batchIndex, batchRoot) ==
  IF caller # Owner THEN onlyOwnerStatus(caller) ELSE "ok"

addBatchRootStatus(caller, batchIndex, batchRoot) ==
  IF caller # Owner THEN onlyOwnerStatus(caller)
  ELSE IF distributorBatchRoots[batchIndex] # Bytes32Zero
  THEN "MerkleDistributor: Batch root already exists"
  ELSE "ok"

AddBatchRoot(caller, batchIndex, batchRoot) ==
  LET status == addBatchRootStatus(caller, batchIndex, batchRoot)
  IN /\ verifiedBatchCount < MaxVerifiedBatchCount
     /\ lastCall' = [function |-> "addBatchRoot", status |-> status]
     /\ IF status = "ok"
        THEN /\ distributorBatchRoots' =
                  [distributorBatchRoots EXCEPT ![batchIndex] = batchRoot]
             /\ verifiedBatchCount' = verifiedBatchCount + 1
        ELSE UNCHANGED <<distributorBatchRoots, verifiedBatchCount>>
     /\ UNCHANGED <<merkleRoot, claimedBitMap, claimedEvents, tokenVars,
                    genVars, diskVars, proofVars, supplyVars,
                    treeVars, scriptVars>>

\* the loop of addBatchRoots from entry i on
RECURSIVE addBatchRootsLoop(_, _, _, _)
addBatchRootsLoop(i, roots, count, call) ==
  IF i > Len(call.batchIndices) THEN [roots |-> roots, count |-> count]
  ELSE LET batchIndex == call.batchIndices[i]
           batchRoot == call.roots[i]
       IN IF roots[batchIndex] = Bytes32Zero
          THEN addBatchRootsLoop(i + 1, [roots EXCEPT ![batchIndex] = batchRoot],
                                 count + 1, call)
          ELSE addBatchRootsLoop(i + 1, roots, count, call)

addBatchRootsStatus(caller, call) ==
  IF caller # Owner THEN onlyOwnerStatus(caller)
  ELSE IF Len(call.batchIndices) # Len(call.roots)
  THEN "MerkleDistributor: Array lengths mismatch"
  ELSE "ok"

AddBatchRoots(caller, call) ==
  LET status == addBatchRootsStatus(caller, call)
  IN /\ verifiedBatchCount + Len(call.batchIndices) <= MaxVerifiedBatchCount
     /\ lastCall' = [function |-> "addBatchRoots", status |-> status]
     /\ IF status = "ok"
        THEN LET loop == addBatchRootsLoop(1, distributorBatchRoots,
                                           verifiedBatchCount, call)
             IN /\ distributorBatchRoots' = loop.roots
                /\ verifiedBatchCount' = loop.count
        ELSE UNCHANGED <<distributorBatchRoots, verifiedBatchCount>>
     /\ UNCHANGED <<merkleRoot, claimedBitMap, claimedEvents, tokenVars,
                    genVars, diskVars, proofVars, supplyVars,
                    treeVars, scriptVars>>

rescueTokensStatus(caller, to, amount) ==
  IF caller # Owner THEN onlyOwnerStatus(caller)
  ELSE transferStatus(balanceOf, paused, Distributor, to, amount)

RescueTokens(caller, to, amount) ==
  LET status == rescueTokensStatus(caller, to, amount)
  IN /\ lastCall' = [function |-> "rescueTokens", status |-> status]
     /\ balanceOf' = IF status = "ok"
                     THEN transferred(balanceOf, Distributor, to, amount)
                     ELSE balanceOf
     /\ UNCHANGED <<merkleRoot, distributorBatchRoots, verifiedBatchCount,
                    claimedBitMap, claimedEvents, paused, genVars, diskVars, proofVars, supplyVars,
                    treeVars, scriptVars>>

\* ---- AirdropToken: pause and unpause, onlyRole(PAUSER_ROLE); the deployer
\* holds the role
onlyRoleStatus(caller) ==
  IF caller = Owner THEN "ok" ELSE "AccessControlUnauthorizedAccount"

Pause(caller) ==
  LET status == onlyRoleStatus(caller)
  IN /\ lastCall' = [function |-> "pause", status |-> status]
     /\ paused' = IF status = "ok" THEN TRUE ELSE paused
     /\ UNCHANGED <<merkleRoot, distributorBatchRoots, verifiedBatchCount,
                    claimedBitMap, claimedEvents, balanceOf, genVars, diskVars, proofVars, supplyVars,
                    treeVars, scriptVars>>

Unpause(caller) ==
  LET status == onlyRoleStatus(caller)
  IN /\ lastCall' = [function |-> "unpause", status |-> status]
     /\ paused' = IF status = "ok" THEN FALSE ELSE paused
     /\ UNCHANGED <<merkleRoot, distributorBatchRoots, verifiedBatchCount,
                    claimedBitMap, claimedEvents, balanceOf, genVars, diskVars, proofVars, supplyVars,
                    treeVars, scriptVars>>

\* ---- the calls followed
MaxEntries == 2

\* the entries a claimMultiple call is assembled from: the two records of
\* account 1, one in each batch, and the first of them with the wrong batch
ClaimEntries ==
  {[index |-> AirdropBatches[b + 1][1].index, batchIndex |-> b,
    amount |-> AirdropBatches[b + 1][1].amount,
    proof |-> BatchProofOf(b, AirdropBatches[b + 1][1])] : b \in BatchIndices}
  \cup {[index |-> 0, batchIndex |-> 1, amount |-> 1,
         proof |-> BatchProofOf(0, AirdropBatches[1][1])]}

SeqsUpTo(S, n) == UNION {[1..k -> S] : k \in 0..n}

\* the four arrays of a claimMultiple call; with mismatch, merkleProofs is one longer
ClaimMultipleCall(account, entries, mismatch) ==
  [indices |-> [i \in 1..Len(entries) |-> entries[i].index],
   batchIndices |-> [i \in 1..Len(entries) |-> entries[i].batchIndex],
   account |-> account,
   amounts |-> [i \in 1..Len(entries) |-> entries[i].amount],
   merkleProofs |-> IF mismatch
                    THEN Append([i \in 1..Len(entries) |-> entries[i].proof], <<>>)
                    ELSE [i \in 1..Len(entries) |-> entries[i].proof]]

ClaimMultipleInputs ==
  {ClaimMultipleCall(account, entries, mismatch) :
     account \in {1, 2}, entries \in SeqsUpTo(ClaimEntries, MaxEntries),
     mismatch \in BOOLEAN}

AddBatchRootsCall(entries, mismatch) ==
  [batchIndices |-> [i \in 1..Len(entries) |-> entries[i].batchIndex],
   roots |-> IF mismatch
             THEN Append([i \in 1..Len(entries) |-> entries[i].root], Bytes32Zero)
             ELSE [i \in 1..Len(entries) |-> entries[i].root]]

\* addBatchRoots is followed with each batch's own root
AddBatchRootsInputs ==
  {AddBatchRootsCall(entries, mismatch) :
     entries \in SeqsUpTo({[batchIndex |-> b, root |-> AirdropBatchRoot(b)] :
                             b \in BatchIndices},
                          MaxEntries),
     mismatch \in BOOLEAN}

DistNext ==
  \/ \E a \in ClaimInputs : Claim(a.index, a.account, a.amount, a.merkleProof)
  \/ \E a \in ClaimFromBatchInputs :
       ClaimFromBatch(a.index, a.batchIndex, a.account, a.amount, a.merkleProof)
  \/ \E call \in ClaimMultipleInputs : ClaimMultiple(call)
  \/ \E caller \in Callers, root \in {AirdropTopRoot, AirdropBatchRoot(0)} :
       SetMerkleRoot(caller, root)
  \/ \E caller \in Callers, b \in BatchIndices, zero \in BOOLEAN :
       AddBatchRoot(caller, b, IF zero THEN Bytes32Zero ELSE AirdropBatchRoot(b))
  \/ \E caller \in Callers, call \in AddBatchRootsInputs : AddBatchRoots(caller, call)
  \/ \E caller \in Callers, to \in {Owner, ZeroAddress} :
       RescueTokens(caller, to, Funding - 1)
  \/ \E caller \in Callers : Pause(caller)
  \/ \E caller \in Callers : Unpause(caller)

\* the distributor is deployed over a finished generation with no CSV file
DistSpecInit == Init /\ csvCount = 0 /\ batchSize = 1

SpecDist == DistSpecInit /\ [][DistNext]_vars

\* ---- the registry of batch roots under arbitrary arguments: for batch 0 its
\* own root, the root of the other batch and the zero root, for batch 1 its own
\* root; indices may repeat within one addBatchRoots call
RegistryEntries ==
  {[batchIndex |-> 0, root |-> AirdropBatchRoot(0)],
   [batchIndex |-> 0, root |-> AirdropBatchRoot(1)],
   [batchIndex |-> 0, root |-> Bytes32Zero],
   [batchIndex |-> 1, root |-> AirdropBatchRoot(1)]}

RegistryCalls ==
  {AddBatchRootsCall(entries, mismatch) :
     entries \in SeqsUpTo(RegistryEntries, MaxEntries), mismatch \in BOOLEAN}

RegistryNext ==
  \/ \E caller \in Callers, e \in RegistryEntries :
       AddBatchRoot(caller, e.batchIndex, e.root)
  \/ \E caller \in Callers, call \in RegistryCalls : AddBatchRoots(caller, call)
  \/ \E a \in ClaimFromBatchInputs :
       ClaimFromBatch(a.index, a.batchIndex, a.account, a.amount, a.merkleProof)
  \/ \E call \in ClaimMultipleInputs : ClaimMultiple(call)

SpecRegistry == DistSpecInit /\ [][RegistryNext]_vars

\* ------------------------------------------------------------- withRetry
\* the largest maxRetries followed (CONFIG.MAX_RETRIES is 3)
RetryLimit == 3

\* the delays a call starts with, in units of CONFIG.RETRY_DELAY
RetryDelays == {1, 2, 3}

ErrorMessages == {"Rate limited", "Network Error"}

\* what a call of fn ends in: a result, or an error object of its own
NoOutcome == [kind |-> "none", message |-> "", id |-> 0, data |-> "none"]
Result(id, data) == [kind |-> "result", message |-> "", id |-> id, data |-> data]
Error(id, message) == [kind |-> "error", message |-> message, id |-> id, data |-> "none"]

\* a test that gives up one failure early
retriesExhaustedEarly(n, max) == n >= max

\* if (retries > maxRetries) throw error
retriesExhausted(n, max) == n > max

\* withRetry is entered with retries = 0
RetryStart(max, d) ==
  /\ rPc = "calling"
  /\ maxRetries = max
  /\ delay = d
  /\ firstDelay = d
  /\ retries = 0
  /\ attempts = <<>>
  /\ waits = <<>>
  /\ rOutcome = NoOutcome

RetryInit == \E max \in 0..RetryLimit, d \in RetryDelays : RetryStart(max, d)

\* try { return await fn(...args) } catch (error) { retries++; if (retries >
\* maxRetries) throw error; ... }: one call of fn that ends in outcome
CallFn(outcome) ==
  /\ rPc = "calling"
  /\ attempts' = Append(attempts, outcome)
  /\ IF outcome.kind = "result"
     THEN /\ rPc' = "returned"
          /\ rOutcome' = outcome
          /\ UNCHANGED retries
     ELSE /\ retries' = retries + 1
          /\ IF retriesExhausted(retries + 1, maxRetries)
             THEN rPc' = "thrown" /\ rOutcome' = outcome
             ELSE rPc' = "sleeping" /\ UNCHANGED rOutcome
  /\ UNCHANGED <<maxRetries, delay, firstDelay, waits>>

\* await sleep(delay); delay *= 2
Sleep ==
  /\ rPc = "sleeping"
  /\ waits' = Append(waits, delay)
  /\ delay' = delay * 2
  /\ rPc' = "calling"
  /\ UNCHANGED <<maxRetries, firstDelay, retries, attempts, rOutcome>>

\* fn is any asynchronous function: each call succeeds or throws
FnOutcomes(id) == {Result(id, "none")} \cup {Error(id, m) : m \in ErrorMessages}

RetryNext ==
  \/ /\ \E outcome \in FnOutcomes(Len(attempts) + 1) : CallFn(outcome)
     /\ UNCHANGED <<genVars, diskVars, proofVars, chainVars, treeVars, fetchVars, scoreVars>>
  \/ /\ Sleep
     /\ UNCHANGED <<genVars, diskVars, proofVars, chainVars, treeVars, fetchVars, scoreVars>>

RetrySpecInit ==
  /\ GenInit /\ DiskInit /\ ProofInit /\ DistInit /\ TokenInit /\ TreeIdle
  /\ csvCount = 0 /\ batchSize = 1
  /\ RetryInit /\ FetchIdle /\ ScoreIdle

SpecRetry == RetrySpecInit /\ [][RetryNext]_vars

\* ------------------------------------------------------------- value score
\* USD values are counted in half dollars, balances of the special token in
\* fortieths of a token
UnitsPerDollar == 2
UnitsPerToken == 40

\* VALUE_TIERS; the last tier has max: Infinity
VALUE_TIERS ==
  <<[min |-> 100, max |-> 499, bounded |-> TRUE, score |-> 1],
    [min |-> 500, max |-> 999, bounded |-> TRUE, score |-> 2],
    [min |-> 1000, max |-> 4999, bounded |-> TRUE, score |-> 3],
    [min |-> 5000, max |-> 9999, bounded |-> TRUE, score |-> 4],
    [min |-> 10000, max |-> 49999, bounded |-> TRUE, score |-> 5],
    [min |-> 50000, max |-> 999999, bounded |-> TRUE, score |-> 6],
    [min |-> 1000000, max |-> 0, bounded |-> FALSE, score |-> 7]>>

MIN_USD_VALUE == 100
pricePerToken == 20
minBalance == 5

\* calculateValueScore(usdValue): the score of the first tier with
\* usdValue >= tier.min && usdValue <= tier.max, 0 when there is none
RECURSIVE ScoreFrom(_, _)
ScoreFrom(usdValue, k) ==
  IF k > Len(VALUE_TIERS) THEN 0
  ELSE LET tier == VALUE_TIERS[k]
       IN IF /\ usdValue >= tier.min * UnitsPerDollar
             /\ (~tier.bounded \/ usdValue <= tier.max * UnitsPerDollar)
          THEN tier.score
          ELSE ScoreFrom(usdValue, k + 1)

calculateValueScore(usdValue) == ScoreFrom(usdValue, 1)

\* calculateActualUsdValue(contractAddress, balanceFormatted, originalUsdValue)
calculateActualUsdValue(special, amount) ==
  IF special THEN (amount * pricePerToken * UnitsPerDollar) \div UnitsPerToken
  ELSE amount

\* meetsMinValueThreshold(contractAddress, balanceFormatted, originalUsdValue)
meetsMinValueThreshold(special, amount) ==
  IF special THEN amount >= minBalance * UnitsPerToken
  ELSE amount >= MIN_USD_VALUE * UnitsPerDollar

\* how far around each tier bound the values followed reach, in half dollars
MaxOffset == 2

OwnerAmounts ==
  UNION {{VALUE_TIERS[k].min * UnitsPerDollar + d : d \in (-MaxOffset)..MaxOffset}
           \cup (IF VALUE_TIERS[k].bounded
                 THEN {VALUE_TIERS[k].max * UnitsPerDollar + d : d \in (-MaxOffset)..MaxOffset}
                 ELSE {}) : k \in 1..Len(VALUE_TIERS)}

ScoreInit ==
  /\ scorePc = "owner"
  /\ ownerSpecial \in BOOLEAN
  /\ ownerAmount \in OwnerAmounts
  /\ ownerQualified = FALSE
  /\ ownerScore = 0

\* the filter and the map of fetchAllTokenOwners on one owner that is no contract
ProcessOwner ==
  /\ scorePc = "owner"
  /\ scorePc' = "scored"
  /\ ownerQualified' = meetsMinValueThreshold(ownerSpecial, ownerAmount)
  /\ ownerScore' =
       IF meetsMinValueThreshold(ownerSpecial, ownerAmount)
       THEN calculateValueScore(calculateActualUsdValue(ownerSpecial, ownerAmount))
       ELSE 0
  /\ UNCHANGED <<ownerSpecial, ownerAmount>>
  /\ UNCHANGED <<genVars, diskVars, proofVars, chainVars, treeVars, retryVars, fetchVars>>

ScoreNext == ProcessOwner

ScoreSpecInit ==
  /\ GenInit /\ DiskInit /\ ProofInit /\ DistInit /\ TokenInit /\ TreeIdle
  /\ csvCount = 0 /\ batchSize = 1
  /\ RetryIdle /\ FetchIdle /\ ScoreInit

SpecScore == ScoreSpecInit /\ [][ScoreNext]_vars

\* ------------------------------------------------------------- fetchAllTokenOwners
\* CONFIG.MAX_RETRIES, and CONFIG.RETRY_DELAY as the unit of delay
MAX_RETRIES == 3
RETRY_DELAY == 1

\* the API is followed up to this page
MaxPages == 3

FetchInit ==
  /\ fPc = "loop"
  /\ cursor = 0
  /\ page = 1
  /\ allOwners = 0
  /\ hasMorePages = TRUE

\* while (hasMorePages) { ... await withRetry(fetchTokenOwnersPage,
\* [contractAddress, cursor]) with the default maxRetries and delay
RequestPage ==
  /\ fPc = "loop"
  /\ hasMorePages
  /\ fPc' = "request"
  /\ rPc' = "calling"
  /\ maxRetries' = MAX_RETRIES
  /\ delay' = RETRY_DELAY
  /\ firstDelay' = RETRY_DELAY
  /\ retries' = 0
  /\ attempts' = <<>>
  /\ waits' = <<>>
  /\ rOutcome' = NoOutcome
  /\ UNCHANGED <<cursor, page, allOwners, hasMorePages>>

\* fetchTokenOwnersPage: response.data with a cursor ("more"), without one
\* ("last", also what a 404 is turned into) or with an owner below the
\* threshold ("low"); 'Rate limited' for a 429; the request's own error otherwise
PageOutcomes(id) ==
  {Result(id, d) : d \in {"more", "last", "low"}} \cup {Error(id, m) : m \in ErrorMessages}

\* withRetry returned pageData: n qualified owners are pushed; a page with an
\* owner below the threshold ends the loop, a cursor leads to the next page
PageReturned(n) ==
  /\ fPc = "request"
  /\ rPc = "returned"
  /\ allOwners' = allOwners + n
  /\ IF rOutcome.data = "low"
     THEN /\ hasMorePages' = FALSE
          /\ fPc' = "returned"
          /\ UNCHANGED <<cursor, page>>
     ELSE IF rOutcome.data = "more"
     THEN /\ cursor' = cursor + 1
          /\ page' = page + 1
          /\ fPc' = "loop"
          /\ UNCHANGED hasMorePages
     ELSE /\ hasMorePages' = FALSE
          /\ fPc' = "loop"
          /\ UNCHANGED <<cursor, page>>
  /\ UNCHANGED retryVars

\* catch (error): 'Rate limited' sleeps and continues with the same cursor,
\* any other error breaks out of the loop
PageFailed ==
  /\ fPc = "request"
  /\ rPc = "thrown"
  /\ fPc' = IF rOutcome.message = "Rate limited" THEN "loop" ELSE "returned"
  /\ UNCHANGED <<cursor, page, allOwners, hasMorePages, retryVars>>

\* the loop condition fails: return allOwners
ReturnOwners ==
  /\ fPc = "loop"
  /\ ~hasMorePages
  /\ fPc' = "returned"
  /\ UNCHANGED <<cursor, page, allOwners, hasMorePages, retryVars>>

FetchNext ==
  \/ /\ RequestPage
     /\ UNCHANGED <<genVars, diskVars, proofVars, chainVars, treeVars, scoreVars>>
  \/ /\ fPc = "request"
     /\ \E outcome \in PageOutcomes(Len(attempts) + 1) :
          /\ outcome.data = "more" => page < MaxPages
          /\ CallFn(outcome)
     /\ UNCHANGED <<genVars, diskVars, proofVars, chainVars, treeVars, fetchVars, scoreVars>>
  \/ /\ fPc = "request"
     /\ Sleep
     /\ UNCHANGED <<genVars, diskVars, proofVars, chainVars, treeVars, fetchVars, scoreVars>>
  \/ /\ \E n \in 0..1 : PageReturned(n)
     /\ UNCHANGED <<genVars, diskVars, proofVars, chainVars, treeVars, scoreVars>>
  \/ /\ PageFailed
     /\ UNCHANGED <<genVars, diskVars, proofVars, chainVars, treeVars, scoreVars>>
  \/ /\ ReturnOwners
     /\ UNCHANGED <<genVars, diskVars, proofVars, chainVars, treeVars, scoreVars>>

FetchSpecInit ==
  /\ GenInit /\ DiskInit /\ ProofInit /\ DistInit /\ TokenInit /\ TreeIdle
  /\ csvCount = 0 /\ batchSize = 1
  /\ RetryIdle /\ FetchInit /\ ScoreIdle

SpecFetch == FetchSpecInit /\ [][FetchNext]_vars

\* the script keeps running while it has a step to take; what the API answers
\* is not constrained
SpecFetchLive == SpecFetch /\ WF_vars(FetchNext)

\* ------------------------------------------------------------- test/AirdropTest.js
\* the longest airdrop list the test tree is built over
MaxLeaves == 5

TestAccounts == {1, 2}

\* airdropList: entries {index, account, amount}; the indices run over the
\* positions, upwards or downwards, so that sibling pairs occur in both orders
AirdropLists ==
  UNION {{[k \in 1..n |-> [index |-> IF up THEN k - 1 ELSE n - k,
                           account |-> acct[k],
                           amount |-> 1]] :
            acct \in [1..n -> TestAccounts], up \in BOOLEAN} : n \in 1..MaxLeaves}

\* leafNodes = airdropList.map(item => solidityPackedKeccak256(...))
leafNodes(airdropList) ==
  [k \in 1..Len(airdropList) |->
     PackedLeaf(airdropList[k].index, airdropList[k].account, airdropList[k].amount)]

TreeInit ==
  /\ treePc = "list"
  /\ treeLeaves \in {leafNodes(l) : l \in AirdropLists}
  /\ treeRoot = <<>>
  /\ treeLeafIndex = 0
  /\ treeProof = <<>>

\* merkleTree = new MerkleTree(leafNodes, keccak256, {sortPairs: true});
\* merkleRoot = merkleTree.getHexRoot()
BuildTree ==
  /\ treePc = "list"
  /\ treePc' = "tree"
  /\ treeRoot' = getHexRoot(treeLeaves)
  /\ UNCHANGED <<treeLeaves, treeLeafIndex, treeProof>>
  /\ UNCHANGED <<genVars, diskVars, proofVars, chainVars, scriptVars>>

\* merkleTree.getHexProof(leafNodes[i])
GetProof(i) ==
  /\ treePc \in {"tree", "proof"}
  /\ treePc' = "proof"
  /\ treeLeafIndex' = i
  /\ treeProof' = getHexProof(treeLeaves, treeLeaves[i + 1])
  /\ UNCHANGED <<treeLeaves, treeRoot>>
  /\ UNCHANGED <<genVars, diskVars, proofVars, chainVars, scriptVars>>

TreeNext ==
  \/ BuildTree
  \/ \E i \in 0..(Len(treeLeaves) - 1) : GetProof(i)

TreeSpecInit ==
  /\ GenInit /\ DiskInit /\ ProofInit /\ DistInit /\ TokenInit /\ TreeInit /\ ScriptIdle
  /\ csvCount = 0 /\ batchSize = 1

SpecTree == TreeSpecInit /\ [][TreeNext]_vars

\* ------------------------------------------------------------- AirdropToken
\* type(uint256).max of the model: words are narrowed so that sums can overflow
\* within the values followed
MaxUint256 == 5

Uint256 == 0..MaxUint256

\* who sends and who receives in the calls followed
TokenSenders == {Owner, 1}
TokenRecipients == {Owner, 1, ZeroAddress}

\* constructor(name, symbol, initialSupply, cap_): cap_ > 0 is required; the
\* roles go to the deployer; _mint(msg.sender, initialSupply) runs _update
\* while address(this).code.length is still 0, so without the cap check
TokenDeployInit ==
  /\ cap \in 1..MaxUint256
  /\ \E initialSupply \in Uint256 :
       /\ totalSupply = initialSupply
       /\ balanceOf = [a \in Holders |-> IF a = Owner THEN initialSupply ELSE 0]
  /\ paused = FALSE

\* a mint that checks the role and the receiver only
mintStatusUncapped(caller, to, amount) ==
  IF onlyRoleStatus(caller) # "ok" THEN onlyRoleStatus(caller)
  ELSE IF totalSupply + amount > MaxUint256 THEN "Panic(0x11)"
  ELSE IF to = ZeroAddress THEN "ERC20InvalidReceiver"
  ELSE "ok"

\* the outcome of mint(to, amount): onlyRole(MINTER_ROLE), then the checked
\* sum totalSupply() + amount compared with cap(), then _mint, which rejects
\* the zero address and runs _update with from = address(0) (no pause check,
\* the cap check once more, then the supply and the balance are raised)
mintStatus(caller, to, amount) ==
  IF onlyRoleStatus(caller) # "ok" THEN onlyRoleStatus(caller)
  ELSE IF totalSupply + amount > MaxUint256 THEN "Panic(0x11)"
  ELSE IF totalSupply + amount > cap THEN "ERC20Capped: cap exceeded"
  ELSE IF to = ZeroAddress THEN "ERC20InvalidReceiver"
  ELSE "ok"

Mint(caller, to, amount) ==
  LET status == mintStatus(caller, to, amount)
  IN /\ lastCall' = [function |-> "mint", status |-> status]
     /\ IF status = "ok"
        THEN /\ totalSupply' = totalSupply + amount
             /\ balanceOf' = [balanceOf EXCEPT ![to] = @ + amount]
        ELSE UNCHANGED <<totalSupply, balanceOf>>
     /\ UNCHANGED <<cap, paused, merkleRoot, distributorBatchRoots, verifiedBatchCount,
                    claimedBitMap, claimedEvents, genVars, diskVars, proofVars, treeVars, scriptVars>>

\* transfer(to, amount) called by sender
Transfer(sender, to, amount) ==
  LET status == transferStatus(balanceOf, paused, sender, to, amount)
  IN /\ lastCall' = [function |-> "transfer", status |-> status]
     /\ balanceOf' = IF status = "ok"
                     THEN transferred(balanceOf, sender, to, amount)
                     ELSE balanceOf
     /\ UNCHANGED <<supplyVars, paused, merkleRoot, distributorBatchRoots,
                    verifiedBatchCount, claimedBitMap, claimedEvents,
                    genVars, diskVars, proofVars, treeVars, scriptVars>>

\* ERC20Burnable.burn(amount) called by sender: _update(sender, address(0), amount)
burnStatus(sender, amount) ==
  IF paused THEN "ERC20Pausable: token transfer while paused"
  ELSE IF balanceOf[sender] < amount THEN "ERC20InsufficientBalance"
  ELSE "ok"

Burn(sender, amount) ==
  LET status == burnStatus(sender, amount)
  IN /\ lastCall' = [function |-> "burn", status |-> status]
     /\ IF status = "ok"
        THEN /\ totalSupply' = totalSupply - amount
             /\ balanceOf' = [balanceOf EXCEPT ![sender] = @ - amount]
        ELSE UNCHANGED <<totalSupply, balanceOf>>
     /\ UNCHANGED <<cap, paused, merkleRoot, distributorBatchRoots, verifiedBatchCount,
                    claimedBitMap, claimedEvents, genVars, diskVars, proofVars, treeVars, scriptVars>>

TokenNext ==
  \/ \E caller \in Callers, to \in TokenRecipients, amount \in Uint256 :
       Mint(caller, to, amount)
  \/ \E sender \in TokenSenders, to \in TokenRecipients, amount \in Uint256 :
       Transfer(sender, to, amount)
  \/ \E sender \in TokenSenders, amount \in Uint256 : Burn(sender, amount)
  \/ \E caller \in Callers : Pause(caller)
  \/ \E caller \in Callers : Unpause(caller)

TokenSpecInit ==
  /\ GenInit /\ DiskInit /\ ProofInit /\ DistInit /\ TokenDeployInit /\ TreeIdle /\ ScriptIdle
  /\ csvCount = 0 /\ batchSize = 1

SpecToken == TokenSpecInit /\ [][TokenNext]_vars

\* ------------------------------------------------------------- properties
\* the records of the allocation list, and the addresses that have one
AllRecords ==
  UNION {{batchFiles[b].records[i] : i \in 1..Len(batchFiles[b].records)} :
           b \in DOMAIN batchFiles}

Eligible(val) == \E r \in AllRecords : r.address.val = val

\* the leaves of the top tree, read back from the batch files
TopLeaves == [i \in 1..Cardinality(DOMAIN batchFiles) |-> batchFiles[i - 1].root]

\* C1: for every batch written by the generation and every record of it, the
\* proof extracted for the record's leaf verifies against the batch's stored
\* root.
C1_ProofValidity ==
  \A b \in DOMAIN batchFiles :
    LET leaves == BatchLeaves(batchFiles[b].records) IN
    \A i \in 1..Len(leaves) :
      MerkleTreeVerify(getHexProof(leaves, leaves[i]), leaves[i], batchFiles[b].root)

\* a batch of three records (an odd level) has been written
C1_Witness == \E b \in DOMAIN batchFiles : Len(batchFiles[b].records) = 3

\* C5 as claimed: for every eligible address the lookup returns a proof which,
\* followed by the proof of the batch root in the top tree, verifies against
\* the final root and passes the proof check of claim().
C5_RoundTripTopRoot ==
  genPc = "built" =>
    \A t \in AddrStrings :
      (isAddress(t) /\ Eligible(t.val)) =>
        LET returned == getMerkleProof(t)
            p == returned.result
            leaf == hashToken(p.index, p.address, p.amount)
            chained == p.proof \o getHexProof(TopLeaves, p.batchRoot)
        IN /\ returned.branch = "ok"
           /\ MerkleTreeVerify(chained, leaf, merkleDataFile.content.root)
           /\ MerkleProofVerify(chained, merkleDataFile.content.root, leaf)

\* the part of C5 that does not depend on the lookup finding the address: a
\* returned proof, so chained, verifies against the final root
C5_ChainedWhenReturned ==
  genPc = "built" =>
    \A t \in AddrStrings :
      LET returned == getMerkleProof(t)
          p == returned.result
          leaf == hashToken(p.index, p.address, p.amount)
          chained == p.proof \o getHexProof(TopLeaves, p.batchRoot)
      IN returned.branch = "ok" =>
           /\ MerkleTreeVerify(chained, leaf, merkleDataFile.content.root)
           /\ MerkleProofVerify(chained, merkleDataFile.content.root, leaf)

\* the proof as returned, without the top-tree part, passes the proof check of
\* claim() against the final root
C5_ReturnedProofAlone ==
  genPc = "built" =>
    \A t \in AddrStrings :
      LET returned == getMerkleProof(t)
          p == returned.result
      IN returned.branch = "ok" =>
           MerkleProofVerify(p.proof, merkleDataFile.content.root,
                             hashToken(p.index, p.address, p.amount))

\* C6 as claimed: every address with a record is found, in whatever letter case
\* it is written in the input or in the query; not-eligible is reported only
\* for addresses without a record.
C6_CaseNormalizedLookup ==
  genPc = "built" =>
    \A t \in AddrStrings :
      /\ (isAddress(t) /\ Eligible(t.val)) => getMerkleProof(t).branch = "ok"
      /\ getMerkleProof(t).branch = "notEligible" => ~(isAddress(t) /\ Eligible(t.val))

\* the values a single field of a record is mutated to
MutantIndices == 0..(MaxLines + 1)
MutantAccounts == {[val |-> v, form |-> "lower"] : v \in {1, 2, 3}}
MutantAmounts == {0, 1, calculateAmount([numeric |-> TRUE, val |-> 1]),
                  calculateAmount([numeric |-> TRUE, val |-> 2])}

\* C7: with one field of a record changed (another index, another address,
\* another amount), the re-derived leaf fails verification against the
\* record's proof and batch root, in the script's verifier and in the
\* contract's proof check.
C7_ProofRejection ==
  \A b \in DOMAIN batchFiles :
    LET records == batchFiles[b].records
        leaves == BatchLeaves(records)
        root == batchFiles[b].root
    IN \A i \in 1..Len(records) :
         LET r == records[i]
             proof == getHexProof(leaves, leaves[i])
             Rejected(leaf) == /\ ~MerkleTreeVerify(proof, leaf, root)
                               /\ ~MerkleProofVerify(proof, root, leaf)
         IN /\ \A index \in MutantIndices \ {r.index} :
                 Rejected(hashToken(index, r.address, r.amount))
            /\ \A account \in MutantAccounts :
                 account.val # r.address.val => Rejected(hashToken(r.index, account, r.amount))
            /\ \A amount \in MutantAmounts \ {r.amount} :
                 Rejected(hashToken(r.index, r.address, amount))

\* a batch whose proofs are not empty
C7_Witness == \E b \in DOMAIN batchFiles : Len(batchFiles[b].records) >= 2

\* C8: getMerkleProof returns no proof that fails verification against the
\* stored root of its batch; when the self-check fails it returns null.
C8_NoUnverifiableProof ==
  /\ \A t \in AddrStrings :
       LET returned == getMerkleProof(t) IN
       /\ returned.branch = "ok" =>
            /\ returned.result.batchIndex \in DOMAIN batchFiles
            /\ verifyProof(batchFiles[returned.result.batchIndex].root, returned.result)
       /\ returned.branch # "ok" => returned.result = Null
  /\ proofBranch = "ok" => verifyProof(proofResult.batchRoot, proofResult)
  /\ proofBranch = "selfCheckFailed" => proofResult = Null
  /\ allProofsFile.exists =>
       \A k \in DOMAIN allProofsFile.content :
         verifyProof(allProofsFile.content[k].batchRoot, allProofsFile.content[k])

\* a lookup has failed its self-check and returned null
C8_Witness == proofBranch = "selfCheckFailed" /\ proofResult = Null

\* C9 as claimed: what a lookup returns for an ineligible address differs from
\* what it returns after an internal failure.
InternalFailures == {"noBatchFile", "noRecord", "selfCheckFailed", "exception"}

C9_FailuresDistinguishable ==
  \A t1, t2 \in AddrStrings :
    (getMerkleProof(t1).branch = "notEligible"
       /\ getMerkleProof(t2).branch \in InternalFailures)
      => getMerkleProof(t1).result # getMerkleProof(t2).result

\* C10: a lookup for an address without a record returns null (the
\* not-eligible result once the address map exists), and the export holds no
\* entry for such an address.
C10_NoProofForIneligible ==
  /\ \A t \in AddrStrings :
       ~(isAddress(t) /\ Eligible(t.val)) =>
         /\ getMerkleProof(t).result = Null
         /\ addressMapFile.exists => getMerkleProof(t).branch = "notEligible"
  /\ proofBranch = "ok" => Eligible(proofResult.address.val)
  /\ allProofsFile.exists =>
       \A k \in DOMAIN allProofsFile.content : isAddress(k) /\ Eligible(k.val)

\* after a generation with records, a lookup was answered not-eligible and the
\* export was written
C10_Witness ==
  /\ genPc = "built"
  /\ batchFiles # <<>>
  /\ proofBranch = "notEligible"
  /\ allProofsFile.exists

\* ---- the distributor
RECURSIVE SumAmounts(_)
SumAmounts(records) ==
  IF records = <<>> THEN 0 ELSE Head(records).amount + SumAmounts(Tail(records))

\* the records of an account whose index is marked claimed
ClaimedRecordsOf(account) ==
  SelectSeq(AirdropRecords, LAMBDA r : r.account = account /\ isClaimed(r.index))

AlreadyClaimed == "MerkleDistributor: Drop already claimed"
InvalidProof == "MerkleDistributor: Invalid proof"

\* the positions of a claimMultiple call that name index i
PositionsOf(call, i) == {k \in 1..Len(call.indices) : call.indices[k] = i}

\* the call cut before position k
EntriesBefore(call, k) ==
  [indices |-> SubSeq(call.indices, 1, k - 1),
   batchIndices |-> SubSeq(call.batchIndices, 1, k - 1),
   account |-> call.account,
   amounts |-> SubSeq(call.amounts, 1, k - 1),
   merkleProofs |-> SubSeq(call.merkleProofs, 1, k - 1)]

\* every claim and claimFromBatch call naming an index that has been claimed
\* reverts with 'Drop already claimed'
ClaimedIndexRejected ==
  \A i \in ClaimIndices : claimedEvents[i] > 0 =>
    /\ \A a \in ClaimInputs : a.index = i =>
         claimStatus(a.index, a.account, a.amount, a.merkleProof) = AlreadyClaimed
    /\ \A a \in ClaimFromBatchInputs : a.index = i =>
         claimFromBatchStatus(a.index, a.batchIndex, a.account, a.amount, a.merkleProof)
           = AlreadyClaimed

\* each index is paid out at most once: one Claimed event at most, and the
\* holders hold the amounts of their claimed records and nothing more
PaidAtMostOnce ==
  /\ \A i \in ClaimIndices : claimedEvents[i] <= 1
  /\ \A account \in {1, 2} : balanceOf[account] = SumAmounts(ClaimedRecordsOf(account))

\* isClaimed(i) never returns to false
ClaimedForGood == [][\A i \in ClaimIndices : isClaimed(i) => isClaimed(i)']_vars

\* C2 as stated: once a claim for index i has succeeded, every later claim,
\* claimFromBatch or claimMultiple call naming i reverts with 'Drop already
\* claimed'; each index is paid out at most once and isClaimed(i) never returns
\* to false.
C2_EveryCallAlreadyClaimed ==
  /\ [](/\ ClaimedIndexRejected
        /\ \A i \in ClaimIndices : claimedEvents[i] > 0 =>
             \A call \in ClaimMultipleInputs : PositionsOf(call, i) # {} =>
               claimMultipleStatus(call) = AlreadyClaimed
        /\ PaidAtMostOnce)
  /\ ClaimedForGood

\* C2, amended: once a claim for index i has succeeded, every later claim or
\* claimFromBatch call naming i reverts with 'Drop already claimed'; every later
\* claimMultiple call naming i reverts, and with 'Drop already claimed' when its
\* arrays have equal lengths and the entries before the first one naming i pass
\* their checks; each index is paid out at most once and isClaimed(i) never
\* returns to false.
C2_ClaimedOnce ==
  /\ [](/\ ClaimedIndexRejected
        /\ \A i \in ClaimIndices : claimedEvents[i] > 0 =>
             \A call \in ClaimMultipleInputs : PositionsOf(call, i) # {} =>
               /\ claimMultipleStatus(call) # "ok"
               /\ LET first == CHOOSE k \in PositionsOf(call, i) :
                                 \A l \in PositionsOf(call, i) : k <= l
                  IN (/\ claimMultipleStatus(call) # "MerkleDistributor: Array lengths mismatch"
                      /\ claimMultipleLoop(1, claimedBitMap, 0,
                                           EntriesBefore(call, first)).status = "ok")
                     => claimMultipleStatus(call) = AlreadyClaimed
        /\ PaidAtMostOnce)
  /\ ClaimedForGood

\* an index of the second bitmap word has been claimed, the root replaced, a
\* batch root added and tokens rescued, and a claimMultiple call naming a
\* claimed index has just been turned down
C2_Witness ==
  /\ claimedEvents[256] = 1
  /\ isClaimed(256)
  /\ merkleRoot # AirdropTopRoot
  /\ verifiedBatchCount > 0
  /\ balanceOf[Owner] > 0
  /\ lastCall = [function |-> "claimMultiple", status |-> AlreadyClaimed]

\* the index is unclaimed and the proof verifies the leaf against merkleRoot
ClaimVerifies(a) ==
  /\ ~isClaimed(a.index)
  /\ MerkleProofVerify(a.merkleProof, merkleRoot, PackedLeaf(a.index, a.account, a.amount))

\* what a successful claim does (a step that is no successful claim is
\* recognised by its outcome, before the calls are gone through)
ClaimEffect(a) ==
  /\ balanceOf'[a.account] = balanceOf[a.account] + a.amount
  /\ balanceOf'[Distributor] = balanceOf[Distributor] - a.amount
  /\ \A h \in Holders \ {a.account, Distributor} : balanceOf'[h] = balanceOf[h]
  /\ isClaimed(a.index)'
  /\ \A j \in ClaimIndices \ {a.index} : isClaimed(j)' = isClaimed(j)

\* C3 as stated: claim with an unclaimed index and a proof that verifies the
\* leaf against merkleRoot succeeds, transfers exactly amount from the
\* distributor to account, sets isClaimed(index) and leaves isClaimed(j)
\* unchanged for every other j.
C3_ClaimSucceeds ==
  /\ [](\A a \in ClaimInputs : ClaimVerifies(a) =>
          claimStatus(a.index, a.account, a.amount, a.merkleProof) = "ok")
  /\ [][lastCall' = [function |-> "claim", status |-> "ok"] =>
          \A a \in ClaimInputs :
            (ClaimVerifies(a) /\ Claim(a.index, a.account, a.amount, a.merkleProof))
              => ClaimEffect(a)]_vars

\* the token lets the distributor pay amount to account
TransferPossible(a) ==
  /\ ~paused
  /\ balanceOf[Distributor] >= a.amount
  /\ a.account # ZeroAddress

\* C3, amended: claim with an unclaimed index and a proof that verifies the leaf
\* against merkleRoot, while the token is not paused, the distributor holds at
\* least amount and account is not the zero address, succeeds, transfers exactly
\* amount from the distributor to account, sets isClaimed(index) and leaves
\* isClaimed(j) unchanged for every other j.
C3_ClaimSucceedsWhenPayable ==
  /\ [](\A a \in ClaimInputs : (ClaimVerifies(a) /\ TransferPossible(a)) =>
          claimStatus(a.index, a.account, a.amount, a.merkleProof) = "ok")
  /\ [][lastCall' = [function |-> "claim", status |-> "ok"] =>
          \A a \in ClaimInputs :
            (/\ ClaimVerifies(a)
             /\ TransferPossible(a)
             /\ Claim(a.index, a.account, a.amount, a.merkleProof))
              => ClaimEffect(a)]_vars

\* a claim of index 256 has just succeeded and paid its holder
C3_Witness ==
  /\ lastCall = [function |-> "claim", status |-> "ok"]
  /\ isClaimed(256)
  /\ ~isClaimed(0)
  /\ balanceOf[1] = 1
  /\ balanceOf[Distributor] = Funding - 1

\* C4: claim for an unclaimed index with a proof that does not verify the leaf
\* against merkleRoot (the empty proof the tree gives for a leaf it does not
\* contain is one) reverts with 'Invalid proof', leaves isClaimed(index) false
\* and every token balance unchanged.
C4_InvalidProofReverts ==
  /\ [](\A a \in ClaimInputs :
          /\ (~isClaimed(a.index) /\ a.merkleProof = AbsentLeafProof)
               => ~MerkleProofVerify(a.merkleProof, merkleRoot,
                                     PackedLeaf(a.index, a.account, a.amount))
          /\ (/\ ~isClaimed(a.index)
              /\ ~MerkleProofVerify(a.merkleProof, merkleRoot,
                                    PackedLeaf(a.index, a.account, a.amount)))
               => claimStatus(a.index, a.account, a.amount, a.merkleProof) = InvalidProof)
  /\ [][lastCall'.function = "claim" =>
          \A a \in ClaimInputs :
            \/ ~isClaimed(a.index)' /\ balanceOf' = balanceOf
            \/ ~(/\ ~isClaimed(a.index)
                 /\ ~MerkleProofVerify(a.merkleProof, merkleRoot,
                                       PackedLeaf(a.index, a.account, a.amount))
                 /\ Claim(a.index, a.account, a.amount, a.merkleProof))]_vars

\* a claim with a proof that does not verify has just been turned down, with
\* nothing claimed and nothing paid
C4_Witness ==
  /\ lastCall = [function |-> "claim", status |-> InvalidProof]
  /\ \A i \in ClaimIndices : ~isClaimed(i)
  /\ balanceOf[Distributor] = Funding

\* ---- the generation: indices, batches, skipped rows
RECURSIVE FlattenBatches(_, _)
FlattenBatches(files, n) ==
  IF n = 0 THEN <<>> ELSE FlattenBatches(files, n - 1) \o files[n - 1].records

\* the records accepted so far, in the order they were pushed: those of the
\* batches written, then those of the batch being filled
AcceptedRecords ==
  IF genPc = "built"
  THEN FlattenBatches(batchFiles, Cardinality(DOMAIN batchFiles))
  ELSE FlattenBatches(batchFiles, Cardinality(DOMAIN batchFiles)) \o currentBatchRecords

\* C11: the accepted records carry the indices 0, 1, 2, ... in the order they
\* were accepted, over all files (distinct, increasing, without gaps), and the
\* next index is the number of records accepted: a skipped row consumes none.
C11_SequentialIndices ==
  /\ \A k \in 1..Len(AcceptedRecords) : AcceptedRecords[k].index = k - 1
  /\ globalIndex = Len(AcceptedRecords)

\* in the second file, after three counted rows of which one was skipped
C11_Witness ==
  /\ genPc = "reading"
  /\ fileIdx = 1
  /\ totalRecords = 1
  /\ lineCount = 2
  /\ globalIndex = 2

\* C12: a batch is closed exactly when it holds batchSize records.  Every batch
\* written before the end holds batchSize records and the batch being filled
\* fewer; after construction the last batch holds between 1 and batchSize; a
\* file boundary closes nothing; the record with index g is record g mod
\* batchSize of batch floor(g / batchSize), and the address map says so.
C12_BatchPartition ==
  LET batchCount == Cardinality(DOMAIN batchFiles) IN
  /\ DOMAIN batchFiles = 0..(batchCount - 1)
  /\ \A b \in DOMAIN batchFiles :
       LET records == batchFiles[b].records IN
       /\ batchFiles[b].batchIndex = b
       /\ Len(records) >= 1
       /\ Len(records) <= batchSize
       /\ (genPc # "built" \/ b < batchCount - 1) => Len(records) = batchSize
       /\ \A i \in 1..Len(records) :
            /\ b = records[i].index \div batchSize
            /\ i - 1 = records[i].index % batchSize
  /\ genPc = "reading" =>
       /\ Len(currentBatchRecords) < batchSize
       /\ currentBatchIndex = batchCount
       /\ \A i \in 1..Len(currentBatchRecords) :
            /\ currentBatchIndex = currentBatchRecords[i].index \div batchSize
            /\ i - 1 = currentBatchRecords[i].index % batchSize
  /\ \A a \in DOMAIN addressMap :
       LET e == addressMap[a] IN
       /\ e.batchIndex = e.index \div batchSize
       /\ e.localIndex = e.index % batchSize
       /\ e.index < Len(AcceptedRecords)
       /\ AcceptedRecords[e.index + 1].address = a

\* batches of two; the first one was filled with a record of the first file
\* and a record of the second
C12_Witness ==
  /\ genPc = "reading"
  /\ batchSize = 2
  /\ fileIdx = 1
  /\ totalRecords = 1
  /\ lineCount = 1
  /\ globalIndex = 2
  /\ DOMAIN batchFiles = {0}

\* C13 as claimed: a row with an invalid address, a non-numeric score or a
\* non-positive score is skipped, so that no record, in a batch or under an
\* address-map entry, has an invalid address or the amount of a non-positive
\* score (calculateAmount gives 0 for those scores and for no other).
C13_InvalidRowsSkipped ==
  /\ \A k \in 1..Len(AcceptedRecords) :
       /\ isAddress(AcceptedRecords[k].address)
       /\ AcceptedRecords[k].amount > 0
  /\ \A a \in DOMAIN addressMap :
       /\ isAddress(a)
       /\ AcceptedRecords[addressMap[a].index + 1].amount > 0

\* C14 as claimed: when no row of the input is accepted, the construction
\* fails with zero batches and writes no root record.
C14_EmptyInputFatal ==
  (genPc \in {"built", "aborted"} /\ globalIndex = 0) =>
    /\ DOMAIN batchFiles = {}
    /\ ~merkleDataFile.exists

\* the root of the sorted-pair tree over up to four leaves, written out
PairTreeRoot(leaves) ==
  CASE Len(leaves) = 0 -> <<>>
    [] Len(leaves) = 1 -> leaves[1]
    [] Len(leaves) = 2 -> SortedPairHash(leaves[1], leaves[2])
    [] Len(leaves) = 3 -> SortedPairHash(SortedPairHash(leaves[1], leaves[2]), leaves[3])
    [] Len(leaves) = 4 -> SortedPairHash(SortedPairHash(leaves[1], leaves[2]),
                                         SortedPairHash(leaves[3], leaves[4]))
    [] OTHER -> getHexRoot(leaves)

\* C15: the leaves of the top tree are the batch roots in ascending batchIndex
\* order.  batchRoots[i] is the root stored in batch i's file for every batch
\* written, batchRoots has as many entries as there are batches, and after
\* construction the final root is the root of the sorted-pair tree over
\* exactly batchRoots, and batchCount its length.
C15_TopTreeLeaves ==
  /\ Len(batchRoots) = Cardinality(DOMAIN batchFiles)
  /\ \A i \in 1..Len(batchRoots) :
       /\ (i - 1) \in DOMAIN batchFiles
       /\ batchFiles[i - 1].batchIndex = i - 1
       /\ batchRoots[i] = batchFiles[i - 1].root
  /\ genPc = "built" =>
       /\ merkleDataFile.exists
       /\ merkleDataFile.content.batchCount = Len(batchRoots)
       /\ merkleDataFile.content.root = PairTreeRoot(batchRoots)

\* three batches have been written and the top tree built over their roots
C15_Witness ==
  /\ genPc = "built"
  /\ Len(batchRoots) = 3
  /\ batchRoots[1] # batchRoots[2]
  /\ batchRoots[2] # batchRoots[3]

\* C16: a tree over a single leaf has that leaf as its root and the empty
\* proof for it.  A batch of one record has its record's leaf hash as root, and
\* an airdrop of a single batch has that batch's root as final root.
C16_SingleLeafTree ==
  /\ \A b \in DOMAIN batchFiles :
       LET records == batchFiles[b].records
           leaf == hashToken(records[1].index, records[1].address, records[1].amount)
       IN Len(records) = 1 =>
            /\ batchFiles[b].root = leaf
            /\ getHexProof(BatchLeaves(records), leaf) = <<>>
            /\ MerkleTreeVerify(<<>>, leaf, batchFiles[b].root)
  /\ (genPc = "built" /\ Len(batchRoots) = 1) =>
       /\ merkleDataFile.content.root = batchFiles[0].root
       /\ getHexProof(batchRoots, batchRoots[1]) = <<>>

\* an airdrop of a single record has been built
C16_Witness ==
  /\ genPc = "built"
  /\ Len(batchRoots) = 1
  /\ Len(batchFiles[0].records) = 1
  /\ merkleDataFile.content.root = hashToken(0, batchFiles[0].records[1].address,
                                             batchFiles[0].records[1].amount)

\* C17: a level with an odd number of nodes carries its unpaired last node up
\* unchanged, in the root and in the proofs alike: every level above an odd
\* level ends with that level's last node, the roots of 3-leaf and 5-leaf
\* trees are the pairings with the last leaf hashed in once at the top, every
\* extracted proof folds to the root (for merkletreejs and for the contract's
\* MerkleProof), and in a 3-leaf tree the proof of leaf 0 has 2 siblings.
OddNodeCarried ==
  LET ls == Layers(treeLeaves) IN
  \A k \in 1..(Len(ls) - 1) :
    Len(ls[k]) % 2 = 1 =>
      /\ Len(ls[k + 1]) = (Len(ls[k]) + 1) \div 2
      /\ ls[k + 1][Len(ls[k + 1])] = ls[k][Len(ls[k])]

C17_OddNodeCarriedUp ==
  /\ OddNodeCarried
  /\ (treePc \in {"tree", "proof"} /\ Len(treeLeaves) = 3) =>
       treeRoot = SortedPairHash(SortedPairHash(treeLeaves[1], treeLeaves[2]),
                                 treeLeaves[3])
  /\ (treePc \in {"tree", "proof"} /\ Len(treeLeaves) = 5) =>
       treeRoot = SortedPairHash(
                    SortedPairHash(SortedPairHash(treeLeaves[1], treeLeaves[2]),
                                   SortedPairHash(treeLeaves[3], treeLeaves[4])),
                    treeLeaves[5])
  /\ treePc = "proof" =>
       /\ MerkleTreeVerify(treeProof, treeLeaves[treeLeafIndex + 1], treeRoot)
       /\ MerkleProofVerify(treeProof, treeRoot, treeLeaves[treeLeafIndex + 1])
  /\ (treePc = "proof" /\ Len(treeLeaves) = 3 /\ treeLeafIndex = 0) =>
       Len(treeProof) = 2

\* the proof of the unpaired last leaf of a 5-leaf tree has been extracted
C17_Witness ==
  /\ treePc = "proof"
  /\ Len(treeLeaves) = 5
  /\ treeLeafIndex = 4
  /\ Len(treeProof) = 1

TransferWhilePaused == "ERC20Pausable: token transfer while paused"

\* C18 as stated: a claim (of an unclaimed index, with a proof that verifies)
\* attempted while the token is paused reverts with 'ERC20Pausable: token
\* transfer while paused' and leaves the index unclaimed, so the same claim
\* with the same proof succeeds after unpause.
C18_PausedClaimReverts ==
  /\ [](\A a \in ClaimInputs :
          (paused /\ ClaimVerifies(a)) =>
            claimStatus(a.index, a.account, a.amount, a.merkleProof) = TransferWhilePaused)
  /\ [][lastCall' = [function |-> "claim", status |-> TransferWhilePaused] =>
          /\ claimedBitMap' = claimedBitMap
          /\ balanceOf' = balanceOf
          /\ claimedEvents' = claimedEvents
          /\ \A a \in ClaimInputs :
               Claim(a.index, a.account, a.amount, a.merkleProof) => ~isClaimed(a.index)']_vars
  /\ [][lastCall' = [function |-> "unpause", status |-> "ok"] =>
          \A a \in ClaimInputs :
            (paused /\ ClaimVerifies(a))
              => claimStatus(a.index, a.account, a.amount, a.merkleProof)' = "ok"]_vars

\* C18, amended: while the token is paused, a claim of an unclaimed index with
\* a proof that verifies against merkleRoot, for an account other than the zero
\* address, reverts with 'ERC20Pausable: token transfer while paused'; the
\* reverted call leaves the claimed bits, the balances and the events as they
\* were; and once unpause has succeeded, each claim that was held back by the
\* pause and that the distributor's balance covers succeeds.
C18_PausedClaimRollsBack ==
  /\ [](\A a \in ClaimInputs :
          (paused /\ ClaimVerifies(a) /\ a.account # ZeroAddress) =>
            claimStatus(a.index, a.account, a.amount, a.merkleProof) = TransferWhilePaused)
  /\ [][lastCall' = [function |-> "claim", status |-> TransferWhilePaused] =>
          /\ claimedBitMap' = claimedBitMap
          /\ balanceOf' = balanceOf
          /\ claimedEvents' = claimedEvents
          /\ \A a \in ClaimInputs :
               Claim(a.index, a.account, a.amount, a.merkleProof) => ~isClaimed(a.index)']_vars
  /\ [][lastCall' = [function |-> "unpause", status |-> "ok"] =>
          \A a \in ClaimInputs :
            (/\ claimStatus(a.index, a.account, a.amount, a.merkleProof) = TransferWhilePaused
             /\ balanceOf[Distributor] >= a.amount)
              => claimStatus(a.index, a.account, a.amount, a.merkleProof)' = "ok"]_vars

\* a claim of an unclaimed index has just been reverted by the paused token
C18_Witness ==
  /\ paused
  /\ lastCall = [function |-> "claim", status |-> TransferWhilePaused]
  /\ \E a \in ClaimInputs : ClaimVerifies(a) /\ a.index = 0 /\ balanceOf[Distributor] >= a.amount

MintInputs ==
  {[caller |-> c, to |-> t, amount |-> m] :
     c \in Callers, t \in TokenRecipients, m \in Uint256}

CapExceeded == "ERC20Capped: cap exceeded"

\* what a successful mint does
MintEffect(i) ==
  /\ totalSupply' = totalSupply + i.amount
  /\ balanceOf'[i.to] = balanceOf[i.to] + i.amount
  /\ \A h \in Holders \ {i.to} : balanceOf'[h] = balanceOf[h]

\* C19 as stated: mint(to, amount) called by a minter reverts with
\* 'ERC20Capped: cap exceeded' whenever totalSupply + amount > cap and
\* otherwise succeeds, raising totalSupply and the balance of to by exactly
\* amount; a caller without MINTER_ROLE always reverts and changes nothing.
C19_MintCapped ==
  /\ [](\A i \in MintInputs :
          /\ (i.caller = Owner /\ totalSupply + i.amount > cap) =>
               mintStatus(i.caller, i.to, i.amount) = CapExceeded
          /\ (i.caller = Owner /\ totalSupply + i.amount <= cap) =>
               mintStatus(i.caller, i.to, i.amount) = "ok"
          /\ i.caller # Owner => mintStatus(i.caller, i.to, i.amount) # "ok")
  /\ [][lastCall'.function = "mint" =>
          /\ lastCall'.status # "ok" => UNCHANGED <<balanceOf, totalSupply, cap, paused>>
          /\ lastCall'.status = "ok" =>
               \A i \in MintInputs : Mint(i.caller, i.to, i.amount) => MintEffect(i)]_vars

\* C19, amended: mint(to, amount) called by a minter reverts whenever
\* totalSupply + amount > cap, with 'ERC20Capped: cap exceeded' when the sum
\* fits a uint256 and with an arithmetic panic when it does not; it reverts for
\* to the zero address; otherwise it succeeds, raising totalSupply and the
\* balance of to by exactly amount (also while the token is paused). A caller
\* without MINTER_ROLE always reverts. A reverted mint changes nothing.
C19_MintCappedWithinWord ==
  /\ [](\A i \in MintInputs :
          /\ (i.caller = Owner /\ totalSupply + i.amount > cap) =>
               mintStatus(i.caller, i.to, i.amount) =
                 IF totalSupply + i.amount <= MaxUint256 THEN CapExceeded ELSE "Panic(0x11)"
          /\ (i.caller = Owner /\ totalSupply + i.amount <= cap) =>
               mintStatus(i.caller, i.to, i.amount) =
                 IF i.to = ZeroAddress THEN "ERC20InvalidReceiver" ELSE "ok"
          /\ i.caller # Owner => mintStatus(i.caller, i.to, i.amount) # "ok")
  /\ [][lastCall'.function = "mint" =>
          /\ lastCall'.status # "ok" => UNCHANGED <<balanceOf, totalSupply, cap, paused>>
          /\ lastCall'.status = "ok" =>
               \A i \in MintInputs : Mint(i.caller, i.to, i.amount) => MintEffect(i)]_vars

\* a mint has just filled the cap while the token is paused
C19_Witness ==
  /\ lastCall = [function |-> "mint", status |-> "ok"]
  /\ totalSupply = cap
  /\ balanceOf[1] > 0
  /\ paused

TransferInputs ==
  {[sender |-> s, to |-> t, amount |-> m] :
     s \in TokenSenders, t \in TokenRecipients, m \in Uint256}

\* what a successful transfer does: the recipient is credited and the sender
\* debited by amount (a transfer to oneself nets to nothing)
TransferEffect(i) ==
  /\ balanceOf'[i.to] =
       balanceOf[i.to] + i.amount - (IF i.sender = i.to THEN i.amount ELSE 0)
  /\ i.sender # i.to => balanceOf'[i.sender] = balanceOf[i.sender] - i.amount
  /\ \A h \in Holders \ {i.sender, i.to} : balanceOf'[h] = balanceOf[h]
  /\ totalSupply' = totalSupply

RootExists == "MerkleDistributor: Batch root already exists"
RootNotVerified == "MerkleDistributor: Batch root not verified"

\* the batch indices with a registered (non-zero) root
Registered == {b \in BatchIndices : distributorBatchRoots[b] # Bytes32Zero}

\* a registered root stays; addBatchRoot by the owner on a registered index
\* reverts; addBatchRoots by the owner does not revert and skips registered indices
RegisteredRootsKept ==
  /\ [][\A b \in Registered : distributorBatchRoots'[b] = distributorBatchRoots[b]]_vars
  /\ [](\A e \in RegistryEntries :
          e.batchIndex \in Registered =>
            addBatchRootStatus(Owner, e.batchIndex, e.root) = RootExists)
  /\ [](\A call \in RegistryCalls :
          Len(call.batchIndices) = Len(call.roots) =>
            /\ addBatchRootsStatus(Owner, call) = "ok"
            /\ \A b \in Registered :
                 addBatchRootsLoop(1, distributorBatchRoots, verifiedBatchCount,
                                   call).roots[b] = distributorBatchRoots[b])

\* some entry of the call names a batch without a registered root
NamesUnregistered(call) ==
  \E i \in 1..Len(call.batchIndices) : call.batchIndices[i] \notin Registered

AllEntriesPass(call) ==
  /\ Len(call.indices) = Len(call.batchIndices)
  /\ Len(call.indices) = Len(call.amounts)
  /\ Len(call.indices) = Len(call.merkleProofs)
  /\ \A i \in 1..Len(call.indices) :
       /\ ~isClaimed(call.indices[i])
       /\ distributorBatchRoots[call.batchIndices[i]] # Bytes32Zero
       /\ MerkleProofVerify(call.merkleProofs[i],
                            distributorBatchRoots[call.batchIndices[i]],
                            PackedLeaf(call.indices[i], call.account, call.amounts[i]))
       /\ \A j \in 1..Len(call.indices) : call.indices[j] = call.indices[i] => j = i

RECURSIVE SumSeq(_)
SumSeq(amounts) == IF amounts = <<>> THEN 0 ELSE Head(amounts) + SumSeq(Tail(amounts))

Listed(call) == {call.indices[i] : i \in 1..Len(call.indices)}

\* what a successful claimMultiple does
ClaimMultipleEffect(call) ==
  /\ \A j \in ClaimIndices : isClaimed(j)' = (isClaimed(j) \/ j \in Listed(call))
  /\ balanceOf'[call.account] = balanceOf[call.account] + SumSeq(call.amounts)
  /\ balanceOf'[Distributor] = balanceOf[Distributor] - SumSeq(call.amounts)
  /\ \A h \in Holders \ {call.account, Distributor} : balanceOf'[h] = balanceOf[h]
  /\ \A j \in ClaimIndices :
       claimedEvents'[j] = claimedEvents[j] + (IF j \in Listed(call) THEN 1 ELSE 0)

\* C22: claimMultiple succeeds only if every entry is unclaimed, names a
\* registered batch root and verifies for the account, with no index repeated;
\* a successful call marks exactly the listed indices claimed and moves the sum
\* of the amounts from the distributor to account; a call that does not
\* succeed leaves the claimed bits, the balances and the events as they were.
C22_ClaimMultipleAllOrNothing ==
  /\ [](\A call \in ClaimMultipleInputs :
          claimMultipleStatus(call) = "ok" => AllEntriesPass(call))
  /\ [][lastCall'.function = "claimMultiple" =>
          IF lastCall'.status = "ok"
          THEN \A call \in ClaimMultipleInputs :
                 ClaimMultiple(call) => ClaimMultipleEffect(call)
          ELSE UNCHANGED <<claimedBitMap, balanceOf, claimedEvents>>]_vars

\* a claimMultiple of two entries has just paid account 1 both its records
C22_Witness ==
  /\ lastCall = [function |-> "claimMultiple", status |-> "ok"]
  /\ isClaimed(0) /\ isClaimed(256)
  /\ claimedEvents[0] = 1 /\ claimedEvents[256] = 1
  /\ balanceOf[1] = 2

\* C23: withRetry calls fn at most maxRetries + 1 times; every call before the
\* last one failed, so the first success is returned with no further call; an
\* error is thrown only after maxRetries + 1 failures and is the error of the
\* last attempt; the waits between the attempts are delay, 2*delay, 4*delay, ...
C23_RetryBounded ==
  /\ Len(attempts) <= maxRetries + 1
  /\ \A k \in 1..(Len(attempts) - 1) : attempts[k].kind = "error"
  /\ rPc = "returned" =>
       /\ attempts # <<>>
       /\ attempts[Len(attempts)].kind = "result"
       /\ rOutcome = attempts[Len(attempts)]
       /\ Len(waits) = Len(attempts) - 1
  /\ rPc = "thrown" =>
       /\ Len(attempts) = maxRetries + 1
       /\ attempts[Len(attempts)].kind = "error"
       /\ rOutcome = attempts[Len(attempts)]
       /\ Len(waits) = maxRetries
  /\ rPc = "calling" => Len(waits) = Len(attempts)
  /\ rPc = "sleeping" =>
       /\ Len(waits) = Len(attempts) - 1
       /\ attempts[Len(attempts)].kind = "error"
  /\ \A k \in 1..Len(waits) : waits[k] = firstDelay * Pow(2, k - 1)
  /\ delay = firstDelay * Pow(2, Len(waits))

\* three retries were used up and the error of the fourth attempt was thrown
C23_Witness ==
  /\ rPc = "thrown"
  /\ maxRetries = 3
  /\ firstDelay = 2
  /\ waits = <<2, 4, 8>>
  /\ rOutcome.id = 4

\* C24: calculateValueScore returns a score in 1..7 for every USD value that
\* meets the minimum value threshold (usdValue >= 100), is non-decreasing in
\* usdValue, and returns 0 only for values below 100, values between one
\* tier's max and the next tier's min included; so every owner that passes the
\* threshold is stored with a score in 1..7.
C24_ScoreCoversThreshold ==
  /\ \A v \in OwnerAmounts :
       /\ v >= MIN_USD_VALUE * UnitsPerDollar => calculateValueScore(v) \in 1..7
       /\ calculateValueScore(v) = 0 => v < MIN_USD_VALUE * UnitsPerDollar
       /\ \A w \in OwnerAmounts :
            v <= w => calculateValueScore(v) <= calculateValueScore(w)
  /\ (scorePc = "scored" /\ ownerQualified) => ownerScore \in 1..7

\* C25: verifiedBatchCount equals the number of batch indices whose registered
\* root is non-zero, after any addBatchRoot and addBatchRoots calls, with a
\* zero root or an index repeated within one addBatchRoots call included.
C25_CountMatchesRegistered == verifiedBatchCount = Cardinality(Registered)

\* C26: in every reachable state of the capped token, the state right after
\* construction with any initialSupply and any cap > 0 included,
\* totalSupply <= cap.
C26_SupplyWithinCap == totalSupply <= cap

\* C27: once the files are written, for every address of the address map
\* getMerkleProof returns the proof of the record the map points to: its index
\* is addressMap[address].index and its record is records[localIndex] of batch
\* batchIndex, addresses that occur in several accepted rows included; and the
\* bulk export holds a proof for every record that was assigned an index.
C27_ProofOfMappedRecord ==
  /\ (genPc = "built" /\ addressMapFile.exists) =>
       \A a \in DOMAIN addressMapFile.content :
         LET entry == addressMapFile.content[a]
             returned == getMerkleProof(a).result
             record == batchFiles[entry.batchIndex].records[entry.localIndex + 1]
         IN /\ returned # Null
            /\ returned.index = entry.index
            /\ returned.batchIndex = entry.batchIndex
            /\ record.index = returned.index
            /\ record.address = returned.address
            /\ record.amount = returned.amount
  /\ (genPc = "built" /\ allProofsFile.exists) =>
       \A r \in AllRecords :
         \E k \in DOMAIN allProofsFile.content : allProofsFile.content[k].index = r.index

RECURSIVE SumRecordCounts(_, _)
SumRecordCounts(files, n) ==
  IF n = 0 THEN 0 ELSE SumRecordCounts(files, n - 1) + files[n - 1].recordCount

\* C29: the totalRecords written to merkle_data.json equals the number of
\* records that were assigned a global index, which is the sum of the
\* recordCount of all batch files, for inputs with skipped rows too.
C29_TotalRecordsCountsIndexed ==
  (genPc = "built" /\ merkleDataFile.exists) =>
    /\ merkleDataFile.content.totalRecords = globalIndex
    /\ merkleDataFile.content.totalRecords =
         SumRecordCounts(batchFiles, Cardinality(DOMAIN batchFiles))

\* C28: fetchAllTokenOwners terminates for every behaviour of the API, page
\* requests that keep failing with HTTP 429 included: the pagination loop
\* eventually stops and returns the owners collected so far.
C28_FetchTerminates == <>(fPc = "returned")

====
